---- MODULE Spec2Model ----
(***************************************************************************)
(* A model of the aurae node agent (auraed): the executables registry      *)
(* (cells/cell_service/executables/executables.rs), the VM service         *)
(* (vms/vm.rs, vms/vm_service.rs) and the target routing of the cell       *)
(* service (cells/cell_service/cell_service.rs).                           *)
(***************************************************************************)
EXTENDS Integers, Sequences, FiniteSets, TLC

\* ---------------------------------------------------------------- bounds
MaxNames == 2       \* executable names in play
MaxPid == 3         \* pids the OS can hand out
MaxCalls == 3       \* registry calls recorded in one behaviour
MaxVms == 2         \* vm ids in play
MaxBuilds == 3      \* microVMs the hypervisor builds in one behaviour
MaxVmCalls == 5     \* VmService calls made in one behaviour
MaxBackoffs == 1    \* backoff delays one forward sleeps through before its time runs out
MaxDialMs == 1000   \* the longest a dial takes to fail, in milliseconds
MaxSubscribers == 2 \* receivers of the shutdown broadcast alive at one time
MaxVmRequests == 3  \* VmService calls served beside a forward or a shutdown
MaxTasks == 2       \* local handlers running side by side

ExecutableNames == 1..MaxNames
Pids == 1..MaxPid
VmIds == 1..MaxVms
Handles == 1..MaxBuilds

\* ------------------------------------------------------------- variables
VARIABLES
    cache,      \* Executables.cache : name -> Executable (partial function)
    procs,      \* pids of child processes that are still running
    history,    \* the calls made on the registry so far, oldest first
    exeLast,    \* details of the most recent registry call
    vms,        \* VmService.vms : vm_id -> VirtualMachine (partial function)
    vmms,       \* the microVMs built so far : handle -> hypervisor-side state
    vmsLocked,  \* the vms lock is held by a handler that never returns
    traj,       \* per vm id, the distinct states its VirtualMachine passed through
    vmCalls,    \* number of VmService calls made
    vmLast,     \* details of the most recent VmService call
    cells,      \* CellService.cells : the paths of the cells in the local registry
    vm_service, \* CellService.vm_service is Some (new_with_vm_service) or None (new)
    rpc,        \* the CellService request in hand and how far its handler has got
    retry,      \* the dial loop of one forward against the clock of its backoff
    observe,    \* ObserveService : the log channels registered, and the last local call
    shutdown,   \* GracefulShutdown::wait : how far it has got, and what it has done
    locks,      \* who holds the executables lock and the cells lock of CellService
    tasks       \* the local handlers running side by side, and how far each has got

exeVars == <<cache, procs, history, exeLast>>
vmVars == <<vms, vmms, vmsLocked, traj, vmCalls, vmLast>>
routeVars == <<cells, vm_service, rpc>>
svcVars == <<retry, observe, shutdown, locks, tasks>>
vars == <<cache, procs, history, exeLast, vms, vmms, vmsLocked, traj, vmCalls, vmLast,
          cells, vm_service, rpc, retry, observe, shutdown, locks, tasks>>

\* ------------------------------------------------------ Executable (child)
\* ExitStatus::from_raw(0), the status reported for a process that is already gone
SyntheticStatus == 0
\* the raw wait status of a child ended by SIGTERM, and by the SIGKILL escalation
KilledStatuses == {15, 9}

\* stands for the absent pid of an executable that was never started (no process has it)
NoPid == 0

\* io::Result<Option<ExitStatus>> of Executable::kill
KillSome(s) == [tag |-> "Some", status |-> s, err |-> "none"]
KillNone == [tag |-> "None", status |-> 0, err |-> "none"]
KillErr(k) == [tag |-> "Err", status |-> 0, err |-> k]
NoKill == [tag |-> "NotCalled", status |-> 0, err |-> "none"]

\* Executable::new(spec) followed by a successful Executable::start
StartedExecutable(name, pid) == [name |-> name, state |-> "Started", pid |-> pid]

\* The outcomes of Executable::start: a pid no running process has, or an error
SpawnOk(pid) == [ok |-> TRUE, pid |-> pid]
SpawnFailed == [ok |-> FALSE, pid |-> NoPid]
ExecutableStart(running) == {SpawnOk(p) : p \in Pids \ running} \cup {SpawnFailed}

\* The outcomes of Executable::kill on an executable, given the running processes
ExecutableKill(exe, running) ==
    IF exe.state = "Init" THEN {KillNone}
    ELSE IF exe.pid \in running
    THEN {KillSome(st) : st \in KilledStatuses} \cup {KillErr("EPERM")}
    ELSE {KillSome(SyntheticStatus), KillErr("NotFound"), KillErr("ESRCH"), KillErr("ECHILD")}

\* ------------------------------------------------------ Executables::start
Without(f, k) == [x \in (DOMAIN f) \ {k} |-> f[x]]
With(f, k, v) == [x \in (DOMAIN f) \cup {k} |-> IF x = k THEN v ELSE f[x]]

\* mutant: the duplicate check is missing; entry().or_insert_with keeps the old entry
ExecutablesStart_NoDupCheck(c, name, spawn) ==
    IF ~spawn.ok
    THEN [cache |-> c, res |-> "FailedToStartExecutable", spawned |-> FALSE, pid |-> NoPid]
    ELSE [cache |-> IF name \in DOMAIN c THEN c ELSE With(c, name, StartedExecutable(name, spawn.pid)),
          res |-> "Ok", spawned |-> TRUE, pid |-> spawn.pid]

\* mutant: the executable is put in the cache before it is started
ExecutablesStart_InsertFirst(c, name, spawn) ==
    IF name \in DOMAIN c
    THEN [cache |-> c, res |-> "ExecutableExists", spawned |-> FALSE, pid |-> NoPid]
    ELSE IF ~spawn.ok
    THEN [cache |-> With(c, name, [name |-> name, state |-> "Init", pid |-> NoPid]),
          res |-> "FailedToStartExecutable", spawned |-> FALSE, pid |-> NoPid]
    ELSE [cache |-> With(c, name, StartedExecutable(name, spawn.pid)),
          res |-> "Ok", spawned |-> TRUE, pid |-> spawn.pid]

ExecutablesStart(c, name, spawn) ==
    IF name \in DOMAIN c
    THEN [cache |-> c, res |-> "ExecutableExists", spawned |-> FALSE, pid |-> NoPid]
    ELSE IF ~spawn.ok
    THEN [cache |-> c, res |-> "FailedToStartExecutable", spawned |-> FALSE, pid |-> NoPid]
    ELSE [cache |-> With(c, name, StartedExecutable(name, spawn.pid)),
          res |-> "Ok", spawned |-> TRUE, pid |-> spawn.pid]

\* ------------------------------------------------------- Executables::stop
\* the match on the kill result, after the entry has been removed
StopResult(kill) ==
    CASE kill.tag = "Some" -> [res |-> "Ok", status |-> kill.status]
      [] kill.tag = "None" -> [res |-> "ExecutableNotFound", status |-> 0]
      [] kill.tag = "Err" /\ kill.err \in {"NotFound", "ESRCH", "ECHILD"} ->
            [res |-> "Ok", status |-> SyntheticStatus]
      [] OTHER -> [res |-> "FailedToStopExecutable", status |-> 0]

\* mutant: the entry is removed only when the kill succeeded
ExecutablesStop_KeepOnKillError(c, name, kill) ==
    IF name \notin DOMAIN c
    THEN [cache |-> c, res |-> "ExecutableNotFound", status |-> 0, killed |-> FALSE]
    ELSE [cache |-> IF kill.tag = "Err" THEN c ELSE Without(c, name),
          res |-> StopResult(kill).res,
          status |-> StopResult(kill).status, killed |-> TRUE]

\* mutant: the entry is never removed from the cache
ExecutablesStop_NoRemove(c, name, kill) ==
    IF name \notin DOMAIN c
    THEN [cache |-> c, res |-> "ExecutableNotFound", status |-> 0, killed |-> FALSE]
    ELSE [cache |-> c, res |-> StopResult(kill).res,
          status |-> StopResult(kill).status, killed |-> TRUE]

\* mutant: a missing name is reported as a successful stop
ExecutablesStop_MissingIsOk(c, name, kill) ==
    IF name \notin DOMAIN c
    THEN [cache |-> c, res |-> "Ok", status |-> 0, killed |-> FALSE]
    ELSE [cache |-> Without(c, name), res |-> StopResult(kill).res,
          status |-> StopResult(kill).status, killed |-> TRUE]

\* mutant: every kill error is reported, the already-exited arm is missing
ExecutablesStop_NoExitedArm(c, name, kill) ==
    IF name \notin DOMAIN c
    THEN [cache |-> c, res |-> "ExecutableNotFound", status |-> 0, killed |-> FALSE]
    ELSE [cache |-> Without(c, name),
          res |-> IF kill.tag = "Err" THEN "FailedToStopExecutable" ELSE StopResult(kill).res,
          status |-> StopResult(kill).status, killed |-> TRUE]

ExecutablesStop(c, name, kill) ==
    IF name \notin DOMAIN c
    THEN [cache |-> c, res |-> "ExecutableNotFound", status |-> 0, killed |-> FALSE]
    ELSE [cache |-> Without(c, name), res |-> StopResult(kill).res,
          status |-> StopResult(kill).status, killed |-> TRUE]

\* ------------------------------------------------------------------ Init
EmptyMap == [x \in {} |-> 0]

NoCall == [op |-> "none", name |-> 0, res |-> "none", status |-> 0,
           found |-> FALSE, running |-> FALSE, spawn |-> SpawnFailed, spawned |-> FALSE,
           kill |-> NoKill, before |-> EmptyMap]

InitExe ==
    /\ cache = EmptyMap
    /\ procs = {}
    /\ history = <<>>
    /\ exeLast = NoCall

\* VmService::new
NoVmCall == [op |-> "none", id |-> 0, res |-> "none", err |-> "none",
             built |-> FALSE, before |-> EmptyMap]

InitVm ==
    /\ vms = EmptyMap
    /\ vmms = EmptyMap
    /\ vmsLocked = FALSE
    /\ traj = EmptyMap
    /\ vmCalls = 0
    /\ vmLast = NoVmCall

\* Option<T> : None, or Some(x)
None == <<>>
Some(x) == <<x>>
IsSome(o) == Len(o) = 1
Unwrap(o) == o[1]

\* a tonic Status, or the error a handler returns before it is made into one
Status(code, message) == [code |-> code, message |-> message]
Ok == Status("Ok", "")
NoStatus == Status("none", "")

\* ResolvedTarget and the sockets it carries
NoSocket == [transport |-> "none", cell |-> <<>>, vm |-> 0]
Resolved(kind, socket, cell_path) ==
    [kind |-> kind, socket |-> socket, cell_path |-> cell_path, err |-> Ok]
ResolveError(err) == [kind |-> "Err", socket |-> NoSocket, cell_path |-> None, err |-> err]
Unresolved == Resolved("none", NoSocket, None)

\* no request in hand
NoRpc == [pc |-> "idle", req |-> [kind |-> "none"], target |-> None, by |-> "none",
          resolved |-> Unresolved, cert |-> "none", dials |-> <<>>, calls |-> <<>>,
          delivered |-> None, response |-> NoStatus]

\* CellService::new_with_vm_service : an empty cells registry, a VmService at hand
InitRoute ==
    /\ cells = {}
    /\ vm_service = TRUE
    /\ rpc = NoRpc

\* no forward is dialing
NoRetry == [pc |-> "idle", elapsed |-> 0, current_interval |-> 0, dials |-> 0,
            lastDial |-> 0, response |-> NoStatus]

\* ObserveService::new : no channel registered, no local call made
NoObserve == [channels |-> {},
              last |-> [op |-> "none", name |-> 0, res |-> "none", pid |-> NoPid,
                        steps |-> <<>>, before |-> {}]]

\* GracefulShutdown::new : no signal received
Services == {"CellService", "VmService", "DiscoveryService"}
NoShutdown == [pc |-> "new", signal |-> "none", subs |-> 0, serving |-> Services,
               log |-> <<>>]

\* the two tokio Mutexes of CellService, nobody holding them; a lock is held by
\* the task whose guard is alive, the request in hand (rpc) being task 0
TaskIds == 1..MaxTasks
Forwarder == 0
NoLocks == [executables |-> <<>>, cells |-> <<>>]
\* a local handler nobody has called yet
NoTask == [pc |-> "idle", op |-> "none", name |-> 0, res |-> "none", at |-> 0,
           found |-> FALSE, spawned |-> FALSE, killed |-> FALSE, current |-> 0,
           pending |-> {}, before |-> {}, order |-> <<>>, failed |-> {},
           after |-> {}, during |-> "none", dials |-> 0, cell |-> <<>>, listed |-> <<>>,
           raced |-> FALSE]

InitSvc ==
    /\ retry = NoRetry
    /\ observe = NoObserve
    /\ shutdown = NoShutdown
    /\ locks = NoLocks
    /\ tasks = [t \in TaskIds |-> NoTask]

Init == InitExe /\ InitVm /\ InitRoute /\ InitSvc

Entry(call) == [op |-> call.op, name |-> call.name, res |-> call.res, found |-> call.found]

\* --------------------------------------------------------------- actions
\* a call of Executables::start(spec, uid, gid) with spec.name = name
Start(name) ==
    /\ Len(history) < MaxCalls
    /\ \E spawn \in ExecutableStart(procs) :
        LET r == ExecutablesStart(cache, name, spawn)
            call == [op |-> "start", name |-> name, res |-> r.res, status |-> 0,
                     found |-> name \in DOMAIN cache, running |-> FALSE, spawn |-> spawn,
                     spawned |-> r.spawned, kill |-> NoKill, before |-> cache]
        IN /\ cache' = r.cache
           /\ procs' = IF r.spawned THEN procs \cup {r.pid} ELSE procs
           /\ exeLast' = call
           /\ history' = Append(history, Entry(call))
    /\ UNCHANGED vmVars
    /\ UNCHANGED routeVars
    /\ UNCHANGED svcVars

\* the entry the kill is delivered to (any value when the name is missing)
Target(c, name) == IF name \in DOMAIN c THEN c[name] ELSE [name |-> name, state |-> "Init", pid |-> NoPid]

\* a call of Executables::stop(name)
Stop(name) ==
    /\ Len(history) < MaxCalls
    /\ \E kill \in ExecutableKill(Target(cache, name), procs) :
        LET r == ExecutablesStop(cache, name, kill)
            call == [op |-> "stop", name |-> name, res |-> r.res, status |-> r.status,
                     found |-> name \in DOMAIN cache,
                     running |-> Target(cache, name).pid \in procs,
                     spawn |-> SpawnFailed, spawned |-> FALSE,
                     kill |-> IF r.killed THEN kill ELSE NoKill, before |-> cache]
        IN /\ cache' = r.cache
           /\ procs' = IF r.killed /\ kill.tag = "Some"
                       THEN procs \ {Target(cache, name).pid} ELSE procs
           /\ exeLast' = call
           /\ history' = Append(history, Entry(call))
    /\ UNCHANGED vmVars
    /\ UNCHANGED routeVars
    /\ UNCHANGED svcVars

\* a child process exits on its own
ProcessExit(pid) ==
    /\ pid \in procs
    /\ procs' = procs \ {pid}
    /\ UNCHANGED <<cache, history, exeLast>>
    /\ UNCHANGED vmVars
    /\ UNCHANGED routeVars
    /\ UNCHANGED svcVars

NextExe ==
    \/ \E name \in ExecutableNames : Start(name)
    \/ \E name \in ExecutableNames : Stop(name)
    \/ \E pid \in Pids : ProcessExit(pid)

SpecExe == Init /\ [][NextExe]_vars

\* ------------------------------------------------- counting over the history
Calls == 1..Len(history)
IsCall(i, op, name) == history[i].op = op /\ history[i].name = name
\* start(name) calls that returned success
StartsOk(name) == Cardinality({i \in Calls : IsCall(i, "start", name) /\ history[i].res = "Ok"})
\* stop(name) calls that returned success
StopsOk(name) == Cardinality({i \in Calls : IsCall(i, "stop", name) /\ history[i].res = "Ok"})
\* stop(name) calls made while name was registered
StopsFound(name) == Cardinality({i \in Calls : IsCall(i, "stop", name) /\ history[i].found})
\* number of registry entries for name
Entries(name) == Cardinality({name} \cap DOMAIN cache)
\* no call on name lies strictly between calls i and j
Adjacent(i, j, name) == i < j /\ \A k \in Calls : (i < k /\ k < j) => history[k].name # name

\* ---------------------------------------------------------------- claims
\* C1: Executables.start of a name that is already in the registry returns
\* ExecutableExists, spawns no process, and leaves the registry (the existing
\* entry and its pid included) unchanged.
C1_DuplicateStartRejected ==
    (exeLast.op = "start" /\ exeLast.found) =>
        /\ exeLast.res = "ExecutableExists"
        /\ ~exeLast.spawned
        /\ cache = exeLast.before

\* a duplicate start was made at a moment the OS would have spawned the process
C1_Witness ==
    /\ exeLast.op = "start" /\ exeLast.found /\ exeLast.spawn.ok
    /\ exeLast.res = "ExecutableExists"
    /\ exeLast.name \in DOMAIN cache

\* C2: once stop(n) of a registered name has returned, whatever the outcome of
\* the kill attempt, n is no longer in the registry, and a following stop(n)
\* returns ExecutableNotFound.
C2_StopAlwaysRemoves ==
    /\ (exeLast.op = "stop" => exeLast.name \notin DOMAIN cache)
    /\ \A n \in ExecutableNames : \A i, j \in Calls :
          (IsCall(i, "stop", n) /\ history[i].found /\ IsCall(j, "stop", n) /\ Adjacent(i, j, n))
              => history[j].res = "ExecutableNotFound"

\* a stop whose kill failed is followed by a second stop of the same name
C2_Witness ==
    /\ Len(history) >= 2
    /\ exeLast.op = "stop" /\ exeLast.res = "ExecutableNotFound"
    /\ \E i \in Calls :
          /\ IsCall(i, "stop", exeLast.name) /\ history[i].found
          /\ history[i].res = "FailedToStopExecutable"
          /\ Adjacent(i, Len(history), exeLast.name)

\* C3: after start(n) (success) and stop(n), the next start(n) is never rejected
\* with ExecutableExists: it succeeds and registers the new process whenever the
\* spawn itself succeeds.
C3_StopFreesName ==
    \A i, j \in Calls :
        LET n == exeLast.name
            k == Len(history)
        IN (/\ exeLast.op = "start"
            /\ IsCall(i, "start", n) /\ history[i].res = "Ok"
            /\ IsCall(j, "stop", n) /\ Adjacent(i, j, n) /\ Adjacent(j, k, n))
           => /\ exeLast.res # "ExecutableExists"
              /\ exeLast.spawn.ok =>
                    /\ exeLast.res = "Ok"
                    /\ n \in DOMAIN cache
                    /\ cache[n].pid = exeLast.spawn.pid

\* start, a stop whose kill failed, and a second start that succeeded
C3_Witness ==
    /\ exeLast.op = "start" /\ exeLast.res = "Ok"
    /\ \E i, j \in Calls :
          /\ IsCall(i, "start", exeLast.name) /\ history[i].res = "Ok"
          /\ IsCall(j, "stop", exeLast.name) /\ history[j].res = "FailedToStopExecutable"
          /\ Adjacent(i, j, exeLast.name) /\ Adjacent(j, Len(history), exeLast.name)

\* C4: a stop of a name that is not in the registry (never started, or already
\* stopped) returns ExecutableNotFound, sends no signal, and leaves the registry
\* unchanged.
C4_StopMissingName ==
    (exeLast.op = "stop" /\ ~exeLast.found) =>
        /\ exeLast.res = "ExecutableNotFound"
        /\ exeLast.kill = NoKill
        /\ cache = exeLast.before

\* a stop of a missing name while another executable is registered and running
C4_Witness ==
    /\ exeLast.op = "stop" /\ ~exeLast.found
    /\ exeLast.res = "ExecutableNotFound"
    /\ \E n \in DOMAIN cache : cache[n].pid \in procs

\* C5 as claimed: the number of registry entries for n equals successful
\* start(n) calls minus successful stop(n) calls, and is 0 or 1.
C5_AsClaimed ==
    \A n \in ExecutableNames :
        /\ Entries(n) = StartsOk(n) - StopsOk(n)
        /\ StartsOk(n) - StopsOk(n) \in {0, 1}

\* C5 (amended): the number of registry entries for n equals successful
\* start(n) calls minus the stop(n) calls made while n was registered (each of
\* them removes the entry, whether it returned success or a kill error); the
\* difference is 0 or 1.
C5_RegistryCount ==
    \A n \in ExecutableNames :
        /\ Entries(n) = StartsOk(n) - StopsFound(n)
        /\ StartsOk(n) - StopsFound(n) \in {0, 1}

\* a name that was started, stopped with a kill error, and started again
C5_Witness ==
    \E n \in ExecutableNames :
        /\ StartsOk(n) = 2 /\ StopsFound(n) = 1 /\ StopsOk(n) = 0
        /\ n \in DOMAIN cache

\* C6: when the process of a registered executable has already exited or been
\* reaped at the stop (the kill reports NotFound, ESRCH or ECHILD), stop
\* returns success with the synthetic zero exit status and the executable is
\* no longer in the registry.
C6_StopOfExitedProcess ==
    /\ (/\ exeLast.op = "stop" /\ exeLast.kill.tag = "Err"
        /\ exeLast.kill.err \in {"NotFound", "ESRCH", "ECHILD"})
           => /\ exeLast.res = "Ok"
              /\ exeLast.status = SyntheticStatus
              /\ exeLast.name \notin DOMAIN cache
    /\ (exeLast.op = "stop" /\ exeLast.found /\ ~exeLast.running)
           => /\ exeLast.res = "Ok"
              /\ exeLast.status = SyntheticStatus
              /\ exeLast.name \notin DOMAIN cache

\* the process exited on its own and the kill of the stop reported ESRCH
C6_Witness ==
    /\ exeLast.op = "stop" /\ exeLast.found /\ ~exeLast.running
    /\ exeLast.kill = KillErr("ESRCH")
    /\ exeLast.res = "Ok"

\* ============================================================ VM service
\* VirtualMachine.vmm = None
NoVmm == 0

\* VirtualMachine::new : state NotStarted, no microVM yet
NewVirtualMachine(id) == [id |-> id, state |-> "NotStarted", vmm |-> NoVmm]

\* the outcomes of build_microvm: a fresh paused microVM, or BadConfiguration
BuildFailed == [ok |-> FALSE, handle |-> NoVmm]
BuildMicrovm(hv) ==
    {BuildFailed} \cup
    (IF Cardinality(DOMAIN hv) < MaxBuilds
     THEN {[ok |-> TRUE, handle |-> Cardinality(DOMAIN hv) + 1]} ELSE {})

\* the outcomes of locking a std Mutex the calling thread already holds
Relock == {"Deadlock", "Panic"}

\* VirtualMachine::allocate
VirtualMachineAllocate(vm, build) ==
    IF vm.state # "NotStarted"
    THEN [vm |-> vm, res |-> "VmExists", call |-> "none"]
    ELSE IF ~build.ok
    THEN [vm |-> vm, res |-> "Panic", call |-> "none"]
    ELSE [vm |-> [vm EXCEPT !.vmm = build.handle], res |-> "Ok", call |-> "build"]

\* VirtualMachine::start
VirtualMachineStart(vm, hv, resumeOk) ==
    IF vm.state = "Running"
    THEN [vm |-> vm, res |-> "Ok", call |-> "none"]
    ELSE IF vm.vmm = NoVmm \/ hv[vm.vmm].poisoned
    THEN [vm |-> vm, res |-> "Panic", call |-> "none"]
    ELSE [vm |-> [vm EXCEPT !.state = "Running"],
          res |-> IF resumeOk THEN "Ok" ELSE "VmNotFound",
          call |-> IF resumeOk THEN "resume" ELSE "none"]

\* VirtualMachine::stop
VirtualMachineStop(vm, hv) ==
    IF vm.state # "Running"
    THEN [vm |-> vm, res |-> "KillError", call |-> "none"]
    ELSE IF vm.vmm = NoVmm \/ hv[vm.vmm].poisoned
    THEN [vm |-> vm, res |-> "Panic", call |-> "none"]
    ELSE [vm |-> [vm EXCEPT !.state = "NotStarted"], res |-> "Ok", call |-> "stop"]

\* VirtualMachine::free : takes the microVM lock, then calls stop() with the
\* lock held; a stop() that gets as far as its own lock() never returns
VirtualMachineFree(vm, hv, relock) ==
    IF vm.vmm = NoVmm \/ hv[vm.vmm].poisoned
    THEN [vm |-> vm, res |-> "Panic", call |-> "none"]
    ELSE IF VirtualMachineStop(vm, hv).call = "stop"
    THEN [vm |-> vm, res |-> relock, call |-> IF relock = "Panic" THEN "poison" ELSE "none"]
    ELSE [vm |-> vm, res |-> VirtualMachineStop(vm, hv).res, call |-> "none"]

\* the microVMs after a handler's call on the hypervisor
Hypervisor(hv, vm, call) ==
    CASE call = "build" -> With(hv, vm.vmm, [run |-> "Paused", poisoned |-> FALSE])
      [] call = "resume" -> [hv EXCEPT ![vm.vmm].run = "Running"]
      [] call = "stop" -> [hv EXCEPT ![vm.vmm].run = "Stopped"]
      [] call = "poison" -> [hv EXCEPT ![vm.vmm].poisoned = TRUE]
      [] OTHER -> hv

\* the distinct states of vm id, extended by the state it has now
Trajectory(t, id, state) ==
    IF id \notin DOMAIN t THEN With(t, id, <<state>>)
    ELSE IF t[id][Len(t[id])] = state THEN t
    ELSE [t EXCEPT ![id] = Append(@, state)]

\* what the caller of a VmService handler gets for the handler's inner result:
\* allocate converts the error with `?`, the other handlers expect() success
AllocateResponse(res) == res
ExpectResponse(res) ==
    IF res \in {"Ok", "Deadlock"} THEN res ELSE "Panic"

VmCall(op, id, res, err, built) ==
    [op |-> op, id |-> id, res |-> res, err |-> err, built |-> built, before |-> vms]

\* a handler that found the vm: its effects on the registry and the hypervisor
VmEffects(op, id, r, response) ==
    /\ vms' = With(vms, id, r.vm)
    /\ vmms' = Hypervisor(vmms, r.vm, r.call)
    /\ traj' = Trajectory(traj, id, r.vm.state)
    /\ vmsLocked' = (response = "Deadlock")
    /\ vmLast' = VmCall(op, id, response, r.res, r.call = "build")

\* a handler that panicked before it touched any vm
VmPanics(op, id) ==
    /\ vmLast' = VmCall(op, id, "Panic", "Panic", FALSE)
    /\ UNCHANGED <<vms, vmms, traj, vmsLocked>>

\* VmService::allocate
VmServiceAllocate(id, wellFormed) ==
    /\ vmCalls < MaxVmCalls /\ ~vmsLocked
    /\ vmCalls' = vmCalls + 1
    /\ UNCHANGED exeVars
    /\ UNCHANGED routeVars
    /\ UNCHANGED svcVars
    /\ IF ~wellFormed THEN VmPanics("allocate", id)
       ELSE \E build \in BuildMicrovm(vmms) :
              LET vm == IF id \in DOMAIN vms THEN vms[id] ELSE NewVirtualMachine(id)
                  r == VirtualMachineAllocate(vm, build)
              IN VmEffects("allocate", id, r, AllocateResponse(r.res))

\* VmService::free
VmServiceFree(id) ==
    /\ vmCalls < MaxVmCalls /\ ~vmsLocked
    /\ vmCalls' = vmCalls + 1
    /\ UNCHANGED exeVars
    /\ UNCHANGED routeVars
    /\ UNCHANGED svcVars
    /\ IF id \notin DOMAIN vms THEN VmPanics("free", id)
       ELSE \E relock \in Relock :
              LET r == VirtualMachineFree(vms[id], vmms, relock)
              IN VmEffects("free", id, r, ExpectResponse(r.res))

\* VmService::start
VmServiceStart(id) ==
    /\ vmCalls < MaxVmCalls /\ ~vmsLocked
    /\ vmCalls' = vmCalls + 1
    /\ UNCHANGED exeVars
    /\ UNCHANGED routeVars
    /\ UNCHANGED svcVars
    /\ IF id \notin DOMAIN vms THEN VmPanics("start", id)
       ELSE \E resumeOk \in BOOLEAN :
              LET r == VirtualMachineStart(vms[id], vmms, resumeOk)
              IN VmEffects("start", id, r, ExpectResponse(r.res))

\* VmService::stop
VmServiceStop(id) ==
    /\ vmCalls < MaxVmCalls /\ ~vmsLocked
    /\ vmCalls' = vmCalls + 1
    /\ UNCHANGED exeVars
    /\ UNCHANGED routeVars
    /\ UNCHANGED svcVars
    /\ IF id \notin DOMAIN vms THEN VmPanics("stop", id)
       ELSE LET r == VirtualMachineStop(vms[id], vmms)
            IN VmEffects("stop", id, r, ExpectResponse(r.res))

NextVm ==
    \/ \E id \in VmIds, wellFormed \in BOOLEAN : VmServiceAllocate(id, wellFormed)
    \/ \E id \in VmIds : VmServiceFree(id)
    \/ \E id \in VmIds : VmServiceStart(id)
    \/ \E id \in VmIds : VmServiceStop(id)

SpecVm == Init /\ [][NextVm]_vars

\* ------------------------------------------------------------- VM claims
IsPrefix(a, b) == Len(a) <= Len(b) /\ \A i \in 1..Len(a) : a[i] = b[i]

\* the vm the last call addressed was in the registry, with these fields
Addressed == vmLast.id \in DOMAIN vmLast.before
Before == vmLast.before[vmLast.id]

\* C7: the distinct states a VM passes through are a prefix of NotStarted,
\* Running, Stopped: a successful stop moves Running to Stopped, and no call
\* moves a VM from Running or Stopped back to NotStarted, or from Stopped to
\* Running.
C7_StateTrajectory ==
    /\ \A id \in DOMAIN vms : IsPrefix(traj[id], <<"NotStarted", "Running", "Stopped">>)
    /\ (vmLast.op = "stop" /\ vmLast.res = "Ok") => vms[vmLast.id].state = "Stopped"

\* C8: VmService.Stop of an allocated VM that is not Running returns KillError
\* ("vm is not running") to the caller and leaves the VM's state unchanged.
C8_StopNotRunning ==
    (vmLast.op = "stop" /\ Addressed /\ Before.vmm # NoVmm /\ Before.state # "Running") =>
        /\ vmLast.res = "KillError"
        /\ vms[vmLast.id] = Before

\* C9: VmService.Allocate with a vm_id that is already in the registry, with
\* its microVM built, fails with VmExists and leaves the existing VM unchanged
\* (same state, same handle): no second microVM is built for that id.
C9_AllocateExistingId ==
    (vmLast.op = "allocate" /\ Addressed /\ Before.vmm # NoVmm) =>
        /\ vmLast.res = "VmExists"
        /\ vms[vmLast.id] = Before
        /\ ~vmLast.built

\* C10: VmService.Free of a VM in any state with a built handle succeeds, and
\* afterwards the vm_id is absent from the registry; a Running VM is stopped
\* first.
C10_FreeRemoves ==
    (vmLast.op = "free" /\ Addressed /\ Before.vmm # NoVmm) =>
        /\ vmLast.res = "Ok"
        /\ vmLast.id \notin DOMAIN vms
        /\ Before.state = "Running" => vmms[Before.vmm].run = "Stopped"

\* C11: VirtualMachine.free does not hold the microVM lock while the stop
\* transition runs: a free of a Running VM whose handle is built always
\* returns to its caller, and no lock is left held by a handler that blocked
\* on a lock it already owned.
C11_FreeOfRunningReturns ==
    (vmLast.op = "free" /\ Addressed /\ Before.vmm # NoVmm /\ Before.state = "Running") =>
        /\ vmLast.res # "Deadlock"
        /\ ~vmsLocked

\* ======================================================== target routing
\* the strings a request can carry: a cell path is its sequence of segments
\* ("x/y" is <<"x", "y">>, "" is <<>>), a vm id is a number and "" is EmptyVmId
CellNames == {<<"x">>, <<"x", "y">>}
EmptyCellPath == <<>>
CellPathStrings == CellNames \cup {EmptyCellPath}
EmptyVmId == 0
VmIdStrings == VmIds \cup {EmptyVmId}
Opt(S) == {None} \cup {Some(x) : x \in S}

\* ExecutionTarget { vm_id: Option<String>, cell_path: Option<String> }
ExecutionTarget(vm_id, cell_path) == [vm_id |-> vm_id, cell_path |-> cell_path]
ExecutionTargets == {ExecutionTarget(v, c) : v \in Opt(VmIdStrings), c \in Opt(CellPathStrings)}

\* the uid and gid a Start request asks for
Credentials == {[uid |-> None, gid |-> None], [uid |-> Some(1), gid |-> Some(2)]}

\* the five request messages of CellService
CellServiceAllocateRequest(cell, parent_target) ==
    [kind |-> "Allocate", cell |-> cell, parent_target |-> parent_target]
CellServiceFreeRequest(cell_name, parent_target) ==
    [kind |-> "Free", cell_name |-> cell_name, parent_target |-> parent_target]
CellServiceStartRequest(cell_name, executable, uid, gid, execution_target) ==
    [kind |-> "Start", cell_name |-> cell_name, executable |-> executable,
     uid |-> uid, gid |-> gid, execution_target |-> execution_target]
CellServiceStopRequest(cell_name, executable_name, execution_target) ==
    [kind |-> "Stop", cell_name |-> cell_name, executable_name |-> executable_name,
     execution_target |-> execution_target]
CellServiceListRequest(execution_target) ==
    [kind |-> "List", execution_target |-> execution_target]

Requests ==
    {CellServiceAllocateRequest(c, t) : c \in CellNames, t \in Opt(ExecutionTargets)}
    \cup {CellServiceFreeRequest(c, t) : c \in CellNames, t \in Opt(ExecutionTargets)}
    \cup {CellServiceStartRequest(c, e, k.uid, k.gid, t) :
            c \in Opt(CellNames), e \in ExecutableNames, k \in Credentials,
            t \in Opt(ExecutionTargets)}
    \cup {CellServiceStopRequest(c, e, t) :
            c \in Opt(CellNames), e \in ExecutableNames, t \in Opt(ExecutionTargets)}
    \cup {CellServiceListRequest(t) : t \in Opt(ExecutionTargets)}

\* the target field of a request: parent_target or execution_target
TargetOf(req) ==
    IF req.kind \in {"Allocate", "Free"} THEN req.parent_target ELSE req.execution_target

\* the legacy cell_name of a request: only Start and Stop address a cell by it
LegacyCellName(req) == IF req.kind \in {"Start", "Stop"} THEN req.cell_name ELSE None

\* target.vm_id.is_some() || target.cell_path.is_some()
HasTarget(target) == IsSome(target.vm_id) \/ IsSome(target.cell_path)

\* the facade of allocate and free: the target to forward to, None for local
AllocateRoute(req) ==
    IF IsSome(req.parent_target) /\ HasTarget(Unwrap(req.parent_target))
    THEN req.parent_target ELSE None
FreeRoute(req) ==
    IF IsSome(req.parent_target) /\ HasTarget(Unwrap(req.parent_target))
    THEN req.parent_target ELSE None

\* the facade of start and stop: an execution_target with a field set, else the
\* legacy cell_name made into a target, else local
StartRoute_IgnoreCellName(req) ==
    IF IsSome(req.execution_target) /\ HasTarget(Unwrap(req.execution_target))
    THEN req.execution_target ELSE None
StartRoute(req) ==
    IF IsSome(req.execution_target)
    THEN IF HasTarget(Unwrap(req.execution_target)) THEN req.execution_target ELSE None
    ELSE IF IsSome(req.cell_name)
    THEN Some(ExecutionTarget(None, Some(Unwrap(req.cell_name))))
    ELSE None
StopRoute(req) ==
    IF IsSome(req.execution_target)
    THEN IF HasTarget(Unwrap(req.execution_target)) THEN req.execution_target ELSE None
    ELSE IF IsSome(req.cell_name)
    THEN Some(ExecutionTarget(None, Some(Unwrap(req.cell_name))))
    ELSE None

\* the facade of list: any execution_target is forwarded
ListRoute(req) == req.execution_target

Route(req) ==
    CASE req.kind = "Allocate" -> AllocateRoute(req)
      [] req.kind = "Free" -> FreeRoute(req)
      [] req.kind = "Start" -> StartRoute(req)
      [] req.kind = "Stop" -> StopRoute(req)
      [] req.kind = "List" -> ListRoute(req)

\* the request the facade hands to *_in_target: start and stop clear cell_name
Forwarded(req) ==
    IF req.kind \in {"Start", "Stop"} THEN [req EXCEPT !.cell_name = None] ELSE req

\* the Unix socket of a cell's nested agent, the address of a VM's guest agent
CellSocket(cell_name) == [transport |-> "Unix", cell |-> cell_name, vm |-> 0]
VmSocket(vm_id) == [transport |-> "Tcp", cell |-> <<>>, vm |-> vm_id]

\* CellName::validate : the empty string is no cell name
CellNameValidate(path) == path # EmptyCellPath

\* cells.get(&cell_name, |cell| cell.client_socket()) : the registry holds the
\* whole tree, so a nested path is looked up as it stands
CellsGet(cs, cell_name) ==
    IF cell_name \in cs THEN Some(CellSocket(cell_name)) ELSE None

\* vm_service.get_vm_socket(vm_id) : the guest address of a VM that is Running
GetVmSocket(v, vm_id) ==
    IF vm_id \in DOMAIN v /\ v[vm_id].state = "Running" THEN Some(VmSocket(vm_id)) ELSE None

VmNotConfigured == Status("Other", "VM targeting not available (VmService not configured)")
VmNotRunning == Status("VmNotRunning", "")
InvalidCellPath == Status("Other", "Invalid cell path")
CellNotFound == Status("CellNotFound", "")

\* CellService::resolve_target
ResolveTarget_CellFirst(target, cs, v, configured) ==
    IF IsSome(target.cell_path)
    THEN IF ~CellNameValidate(Unwrap(target.cell_path)) THEN ResolveError(InvalidCellPath)
         ELSE IF CellsGet(cs, Unwrap(target.cell_path)) = None THEN ResolveError(CellNotFound)
         ELSE Resolved("Cell", Unwrap(CellsGet(cs, Unwrap(target.cell_path))), None)
    ELSE IF IsSome(target.vm_id)
    THEN IF ~configured THEN ResolveError(VmNotConfigured)
         ELSE IF GetVmSocket(v, Unwrap(target.vm_id)) = None THEN ResolveError(VmNotRunning)
         ELSE Resolved("Vm", Unwrap(GetVmSocket(v, Unwrap(target.vm_id))), target.cell_path)
    ELSE Resolved("Local", NoSocket, None)
ResolveTarget_NoVmCheck(target, cs, v, configured) ==
    IF IsSome(target.vm_id)
    THEN IF ~configured THEN ResolveError(VmNotConfigured)
         ELSE Resolved("Vm", VmSocket(Unwrap(target.vm_id)), target.cell_path)
    ELSE IF IsSome(target.cell_path)
    THEN IF ~CellNameValidate(Unwrap(target.cell_path)) THEN ResolveError(InvalidCellPath)
         ELSE IF CellsGet(cs, Unwrap(target.cell_path)) = None THEN ResolveError(CellNotFound)
         ELSE Resolved("Cell", Unwrap(CellsGet(cs, Unwrap(target.cell_path))), None)
    ELSE Resolved("Local", NoSocket, None)
ResolveTarget(target, cs, v, configured) ==
    IF IsSome(target.vm_id)
    THEN IF ~configured THEN ResolveError(VmNotConfigured)
         ELSE IF GetVmSocket(v, Unwrap(target.vm_id)) = None THEN ResolveError(VmNotRunning)
         ELSE Resolved("Vm", Unwrap(GetVmSocket(v, Unwrap(target.vm_id))), target.cell_path)
    ELSE IF IsSome(target.cell_path)
    THEN IF ~CellNameValidate(Unwrap(target.cell_path)) THEN ResolveError(InvalidCellPath)
         ELSE IF CellsGet(cs, Unwrap(target.cell_path)) = None THEN ResolveError(CellNotFound)
         ELSE Resolved("Cell", Unwrap(CellsGet(cs, Unwrap(target.cell_path))), None)
    ELSE Resolved("Local", NoSocket, None)

\* the closures of start_in_target and stop_in_target: cell_name is the cell
\* path handed over, the outer target is gone, the rest is copied
StartInTarget_DropCellPath(req, cell_path) ==
    CellServiceStartRequest(None, req.executable, req.uid, req.gid, None)
StartInTarget(req, cell_path) ==
    CellServiceStartRequest(cell_path, req.executable, req.uid, req.gid, None)
StopInTarget(req, cell_path) ==
    CellServiceStopRequest(cell_path, req.executable_name, None)

\* the closures of allocate_in_target, free_in_target and list_in_target: the
\* cell path handed over is not used
AllocateInTarget(req, cell_path) == CellServiceAllocateRequest(req.cell, None)
FreeInTarget(req, cell_path) == CellServiceFreeRequest(req.cell_name, None)
ListInTarget(req, cell_path) == CellServiceListRequest(None)

TransformRequest(req, cell_path) ==
    CASE req.kind = "Allocate" -> AllocateInTarget(req, cell_path)
      [] req.kind = "Free" -> FreeInTarget(req, cell_path)
      [] req.kind = "Start" -> StartInTarget(req, cell_path)
      [] req.kind = "Stop" -> StopInTarget(req, cell_path)
      [] req.kind = "List" -> ListInTarget(req, cell_path)

\* do_in_target! : the request sent to a Cell target is transformed with None,
\* the one sent to a Vm target with the target's cell_path
Transformed_PathAsCellName(resolved, req) ==
    IF resolved.kind = "Vm" THEN TransformRequest(req, resolved.cell_path)
    ELSE TransformRequest(req, Some(resolved.socket.cell))
Transformed(resolved, req) ==
    IF resolved.kind = "Vm" THEN TransformRequest(req, resolved.cell_path)
    ELSE TransformRequest(req, None)

\* the client a dial builds: Client::new_no_tls for a Cell target,
\* Client::new_with_tls(socket, &cert_material) for a Vm target
Client_NeverTls(resolved, cert) == [socket |-> resolved.socket, tls |-> "none"]
Client(resolved, cert) ==
    [socket |-> resolved.socket, tls |-> IF resolved.kind = "Vm" THEN cert ELSE "none"]

\* ------------------------------------------------------- local handlers
Parent(cell_name) == SubSeq(cell_name, 1, Len(cell_name) - 1)
Descends(a, b) == Len(b) <= Len(a) /\ SubSeq(a, 1, Len(b)) = b

\* CellService::allocate (local): cells.allocate refuses a name that is taken
\* and a nested name whose parent is missing
LocalAllocate(cs, req) ==
    IF req.cell \in cs THEN [cells |-> cs, response |-> Status("CellExists", "")]
    ELSE IF Len(req.cell) > 1 /\ Parent(req.cell) \notin cs
    THEN [cells |-> cs, response |-> CellNotFound]
    ELSE [cells |-> cs \cup {req.cell}, response |-> Ok]

\* CellService::free (local): cells.free takes the cell and its children away
LocalFree(cs, req) ==
    IF req.cell_name \notin cs THEN [cells |-> cs, response |-> CellNotFound]
    ELSE [cells |-> {c \in cs : ~Descends(c, req.cell_name)}, response |-> Ok]

\* CellService::start and stop (local) begin with assert!(cell_name.is_none());
\* what they do to the executables registry is Start and Stop above
LocalExecutable(cs, req) ==
    IF IsSome(req.cell_name)
    THEN [cells |-> cs, response |-> Status("Panic", "assertion failed: cell_name.is_none()")]
    ELSE [cells |-> cs, response |-> Ok]

\* CellService::list (local)
LocalList(cs, req) == [cells |-> cs, response |-> Ok]

LocalHandler(cs, req) ==
    CASE req.kind = "Allocate" -> LocalAllocate(cs, req)
      [] req.kind = "Free" -> LocalFree(cs, req)
      [] req.kind \in {"Start", "Stop"} -> LocalExecutable(cs, req)
      [] req.kind = "List" -> LocalList(cs, req)

\* ---------------------------------------------------------- forwarding
\* the errors do_in_target! returns before any dial
LocalTargetError == Status("Other", "do_in_target! called with local target")
CertMaterialError == Status("Other", "Failed to load certificate material")

\* what a dial and a call can come back with
DialOutcomes == {"Ok", "ConnectionError", "OtherClientError"}
TransportError == Status("Unknown", "transport error")
CallStatuses ==
    {Ok, TransportError, Status("Unknown", "other"), Status("Unavailable", "transport error")}

\* the dial loop sleeps and dials again only on ClientError::ConnectionError
RetryDial_Always(outcome) == outcome # "Ok"
RetryDial(outcome) == outcome = "ConnectionError"

\* the call is tried again only on Code::Unknown with message "transport error"
RetryCall_AnyUnknown(status) == status.code = "Unknown"
RetryCall(status) == status.code = "Unknown" /\ status.message = "transport error"

\* the backoff delays taken so far for the request in hand: one after each
\* failed dial and each failed call
Backoffs(r) == Len(r.dials) + Len(r.calls) - (IF r.pc = "call" THEN 1 ELSE 0)

\* retry_strategy.next_backoff() is Some(delay): time is left, and the bound on
\* the delays of one forward is not reached
NextBackoff(r, timeLeft) == timeLeft /\ Backoffs(r) < MaxBackoffs

Done(r, by, response) == [r EXCEPT !.pc = "done", !.by = by, !.response = response]

\* a facade handler whose request has no target: validate, run the local handler
HandleLocally(req) ==
    /\ rpc.pc = "idle"
    /\ Route(req) = None
    /\ rpc' = Done([NoRpc EXCEPT !.req = req], "local", LocalHandler(cells, req).response)
    /\ cells' = LocalHandler(cells, req).cells
    /\ UNCHANGED <<vm_service, exeVars, vmVars, svcVars>>

\* resolve_target takes the cells lock on its cell_path branch only, after the
\* vm_id branch was passed over and the path was validated
TakesCellsLock(target) ==
    /\ ~IsSome(target.vm_id)
    /\ IsSome(target.cell_path)
    /\ CellNameValidate(Unwrap(target.cell_path))

\* who holds the cells lock when resolve_target has returned: its guard is a
\* local of the cell_path branch and is dropped with it
\* mutant: the guard lives on in the handler that forwards
CellsGuardAfterResolve_Kept(target, owner) ==
    IF TakesCellsLock(target) THEN <<Forwarder>> ELSE owner
CellsGuardAfterResolve(target, owner) ==
    IF TakesCellsLock(target) THEN <<>> ELSE owner

\* a facade handler whose request has a target: do_in_target! up to its first
\* dial (resolve_target, and load_cert_material for a Vm target)
Forward(req, certOk) ==
    /\ rpc.pc = "idle"
    /\ Route(req) # None
    /\ TakesCellsLock(Unwrap(Route(req))) => locks.cells = None
    /\ locks' = [locks EXCEPT !.cells = CellsGuardAfterResolve(Unwrap(Route(req)), @)]
    /\ LET target == Unwrap(Route(req))
           resolved == ResolveTarget(target, cells, vms, vm_service)
           r == [NoRpc EXCEPT !.req = req, !.target = Some(target), !.resolved = resolved]
       IN rpc' = CASE resolved.kind = "Err" -> Done(r, "none", resolved.err)
                   [] resolved.kind = "Local" -> Done(r, "none", LocalTargetError)
                   [] resolved.kind = "Cell" -> [r EXCEPT !.pc = "dial"]
                   [] resolved.kind = "Vm" ->
                        IF certOk THEN [r EXCEPT !.pc = "dial", !.cert = "loaded"]
                        ELSE Done([r EXCEPT !.cert = "failed"], "none", CertMaterialError)
    /\ UNCHANGED <<cells, vm_service, exeVars, vmVars, retry, observe, shutdown, tasks>>

\* one turn of the dial loop
Dial(outcome, timeLeft) ==
    /\ rpc.pc = "dial"
    /\ LET r == [rpc EXCEPT !.dials =
                    Append(@, [client |-> Client(rpc.resolved, rpc.cert), outcome |-> outcome])]
       IN rpc' = IF outcome = "Ok"
                 THEN [r EXCEPT !.pc = "call"]
                 ELSE IF RetryDial(outcome) /\ NextBackoff(rpc, timeLeft) THEN r
                 ELSE Done(r, "none", Status(outcome, ""))
    /\ UNCHANGED <<cells, vm_service, exeVars, vmVars, svcVars>>

\* one try of the call on the dialed client, with the transformed request
Call(status, timeLeft) ==
    /\ rpc.pc = "call"
    /\ LET r == [rpc EXCEPT !.calls = Append(@, status),
                            !.delivered = Some(Transformed(rpc.resolved, Forwarded(rpc.req)))]
       IN rpc' = IF status = Ok THEN Done(r, "remote", Ok)
                 ELSE IF RetryCall(status) /\ NextBackoff(rpc, timeLeft) THEN r
                 ELSE Done(r, "none", status)
    /\ UNCHANGED <<cells, vm_service, exeVars, vmVars, svcVars>>

\* the handler returns its response to the caller
Respond ==
    /\ rpc.pc = "done"
    /\ rpc' = NoRpc
    /\ UNCHANGED <<cells, vm_service, exeVars, vmVars, svcVars>>

NextRoute ==
    \/ \E req \in Requests : HandleLocally(req)
    \/ \E req \in Requests, certOk \in BOOLEAN : Forward(req, certOk)
    \/ \E outcome \in DialOutcomes, timeLeft \in BOOLEAN : Dial(outcome, timeLeft)
    \/ \E status \in CallStatuses, timeLeft \in BOOLEAN : Call(status, timeLeft)
    \/ Respond

\* the VM registries earlier Allocate and Start calls leave behind, the ids
\* allocated in ascending order
VmRegistries == UNION {[1..n -> {"NotStarted", "Running"}] : n \in 0..MaxVms}
Allocated(f) == [id \in DOMAIN f |-> [id |-> id, state |-> f[id], vmm |-> id]]
Built(f) ==
    [h \in DOMAIN f |->
        [run |-> IF f[h] = "Running" THEN "Running" ELSE "Paused", poisoned |-> FALSE]]

\* a CellService made with new (no VmService), or with new_with_vm_service over
\* a VmService that has allocated and started some VMs
InitRouted ==
    /\ InitExe
    /\ InitSvc
    /\ cells = {}
    /\ rpc = NoRpc
    /\ \/ vm_service = FALSE /\ InitVm
       \/ /\ vm_service = TRUE
          /\ \E f \in VmRegistries :
                /\ vms = Allocated(f)
                /\ vmms = Built(f)
                /\ traj = [id \in DOMAIN f |-> IF f[id] = "Running"
                                               THEN <<"NotStarted", "Running">>
                                               ELSE <<"NotStarted">>]
                /\ vmCalls = Cardinality(DOMAIN f) + Cardinality({id \in DOMAIN f : f[id] = "Running"})
          /\ vmsLocked = FALSE
          /\ vmLast = NoVmCall

SpecRoute == InitRouted /\ [][NextRoute]_vars

\* -------------------------------------------------------- routing claims
\* the request in hand went through resolve_target, with this target
Resolving == rpc.target # None
RpcTarget == Unwrap(rpc.target)

\* the request in hand was sent to a remote agent, as this message
Delivered == rpc.delivered # None
Message == Unwrap(rpc.delivered)

\* the target field of the request is missing or has neither field set
Untargeted(req) == TargetOf(req) = None \/ ~HasTarget(Unwrap(TargetOf(req)))

C13_UntargetedRunsLocally ==
    (rpc.pc = "done" /\ Untargeted(rpc.req) /\ LegacyCellName(rpc.req) = None) =>
        /\ rpc.by = "local"
        /\ rpc.dials = <<>>

\* C14: a Start or Stop forwarded to a Vm target {vm_id = v, cell_path = x}
\* reaches the agent in v with cell_name = x (absent when cell_path is absent),
\* execution_target absent, and executable, uid and gid (for Stop:
\* executable_name) as they were in the request.
C14_StartStopInVm ==
    (Delivered /\ rpc.resolved.kind = "Vm" /\ rpc.req.kind \in {"Start", "Stop"}) =>
        /\ \A i \in 1..Len(rpc.dials) :
                rpc.dials[i].client.socket = VmSocket(Unwrap(RpcTarget.vm_id))
        /\ Message.kind = rpc.req.kind
        /\ Message.cell_name = RpcTarget.cell_path
        /\ Message.execution_target = None
        /\ rpc.req.kind = "Start" =>
                /\ Message.executable = rpc.req.executable
                /\ Message.uid = rpc.req.uid
                /\ Message.gid = rpc.req.gid
        /\ rpc.req.kind = "Stop" => Message.executable_name = rpc.req.executable_name

\* a Start with uid and gid set was delivered into a cell of a VM
C14_Witness ==
    /\ Delivered
    /\ rpc.resolved.kind = "Vm"
    /\ rpc.req.kind = "Start"
    /\ RpcTarget.cell_path = Some(<<"x", "y">>)
    /\ rpc.req.uid = Some(1)
    /\ rpc.response = Ok

\* C15: a request of any kind with target {vm = V, cell = p} reaches the agent
\* in V with its outer target cleared and still addressed to cell p: the
\* facade of that agent routes it on to cell p.
C15_CellPathCarried ==
    (Delivered /\ rpc.resolved.kind = "Vm" /\ rpc.resolved.cell_path \in Opt(CellNames) \ {None}) =>
        /\ TargetOf(Message) = None
        /\ Route(Message) = Some(ExecutionTarget(None, RpcTarget.cell_path))

\* the legacy request's twin: cell_name moved into execution_target.cell_path
Twin(req) ==
    [req EXCEPT !.cell_name = None,
                !.execution_target = Some(ExecutionTarget(None, req.cell_name))]

\* the request in hand is a Start or Stop with cell_name set and no target
Legacy ==
    /\ rpc.pc # "idle"
    /\ rpc.req.kind \in {"Start", "Stop"}
    /\ IsSome(rpc.req.cell_name)
    /\ rpc.req.execution_target = None

\* the cell path a Cell target was resolved from
CellPath == Unwrap(RpcTarget.cell_path)

\* C16 as claimed: a request addressed to cell x/y is sent to the agent of cell
\* x as a request addressed to cell y, one path segment per hop.
C16_AsClaimed ==
    (Delivered /\ rpc.resolved.kind = "Cell" /\ Len(CellPath) > 1) =>
        /\ \A i \in 1..Len(rpc.dials) :
                rpc.dials[i].client.socket = CellSocket(<<Head(CellPath)>>)
        /\ Route(Message) = Some(ExecutionTarget(None, Some(Tail(CellPath))))

\* C16: forwarding into nested cells takes one hop whatever the depth: a
\* request addressed to cell x/y is sent straight to the agent of cell x/y,
\* looked up by its whole path in the local registry, with cell_name and target
\* cleared, so that agent runs it locally and the forwarding agent does not.
C16_WholePathOneHop ==
    (Delivered /\ rpc.resolved.kind = "Cell") =>
        /\ \A i \in 1..Len(rpc.dials) : rpc.dials[i].client.socket = CellSocket(CellPath)
        /\ TargetOf(Message) = None
        /\ LegacyCellName(Message) = None
        /\ Route(Message) = None
        /\ rpc.by # "local"

\* a request addressed to the nested cell x/y was delivered and answered
C16_Witness ==
    /\ Delivered
    /\ rpc.resolved.kind = "Cell"
    /\ CellPath = <<"x", "y">>
    /\ rpc.response = Ok

\* C17: a Start or Stop with legacy cell_name = c and no target is handled as
\* the same request with target {cell_path = c} and no cell_name is: the same
\* target, the same resolution (the same cell socket), and the same forwarded
\* message, whose cell_name is absent.
C17_LegacyCellName ==
    Legacy =>
        /\ rpc.target = Route(Twin(rpc.req))
        /\ rpc.resolved = ResolveTarget(Unwrap(Route(Twin(rpc.req))), cells, vms, vm_service)
        /\ Delivered =>
            /\ Message = Transformed(rpc.resolved, Forwarded(Twin(rpc.req)))
            /\ Message.cell_name = None
            /\ rpc.dials[Len(rpc.dials)].client.socket = CellSocket(Unwrap(rpc.req.cell_name))

\* a legacy Start addressed to cell x was delivered to that cell's agent
C17_Witness ==
    /\ Legacy
    /\ Delivered
    /\ rpc.req.kind = "Start"
    /\ rpc.req.cell_name = Some(<<"x">>)
    /\ rpc.response = Ok

\* a target field that holds the empty string, or is absent
Blank(field, empty) == field \in {None, Some(empty)}

\* C18: a target whose fields hold the empty string is a target whose fields
\* are absent: a Start, Stop, Allocate or Free whose target has empty or absent
\* fields (and no legacy cell_name) is run by the local handler, and is neither
\* forwarded nor rejected.
C18_EmptyIsAbsent ==
    (/\ rpc.pc = "done"
     /\ rpc.req.kind # "List"
     /\ TargetOf(rpc.req) # None
     /\ Blank(Unwrap(TargetOf(rpc.req)).vm_id, EmptyVmId)
     /\ Blank(Unwrap(TargetOf(rpc.req)).cell_path, EmptyCellPath)
     /\ LegacyCellName(rpc.req) = None) =>
        /\ rpc.by = "local"
        /\ rpc.dials = <<>>

\* C19: every dial for a Vm target is made with TLS from the loaded
\* certificate material to the VM's address, and when the material cannot be
\* loaded the request fails with no dial at all; every dial for a Cell target
\* is made to the cell's Unix socket without TLS, and loads no material.
C19_TransportFollowsKind ==
    /\ rpc.dials # <<>> => rpc.resolved.kind \in {"Cell", "Vm"}
    /\ rpc.resolved.kind = "Vm" =>
        /\ rpc.cert \in {"loaded", "failed"}
        /\ \A i \in 1..Len(rpc.dials) :
            /\ rpc.dials[i].client.tls = "loaded"
            /\ rpc.dials[i].client.socket.transport = "Tcp"
    /\ rpc.cert = "failed" =>
        /\ rpc.dials = <<>> /\ rpc.calls = <<>>
        /\ rpc.pc = "done" /\ rpc.by = "none"
        /\ rpc.response = CertMaterialError
    /\ rpc.resolved.kind = "Cell" =>
        /\ rpc.cert = "none"
        /\ \A i \in 1..Len(rpc.dials) :
            /\ rpc.dials[i].client.tls = "none"
            /\ rpc.dials[i].client.socket.transport = "Unix"

\* a Vm target was dialed, more than once
C19_Witness ==
    /\ rpc.resolved.kind = "Vm"
    /\ Len(rpc.dials) > 1
    /\ rpc.dials[Len(rpc.dials)].outcome = "Ok"

\* C20: a dial that was followed by another dial failed with a connection
\* error, and a call that was followed by another call failed with Unknown
\* "transport error"; any other dial error or call status ends the forward with
\* that error as the response, and nothing is dialed or called after it.
C20_RetryOnlyTransient ==
    /\ \A i \in 1..(Len(rpc.dials) - 1) : rpc.dials[i].outcome = "ConnectionError"
    /\ \A i \in 1..(Len(rpc.calls) - 1) : rpc.calls[i] = TransportError
    /\ rpc.calls # <<>> => rpc.dials[Len(rpc.dials)].outcome = "Ok"
    /\ (rpc.dials # <<>> /\ rpc.dials[Len(rpc.dials)].outcome = "OtherClientError") =>
        /\ rpc.pc = "done" /\ rpc.by = "none"
        /\ rpc.response = Status("OtherClientError", "")
        /\ rpc.calls = <<>>
    /\ (rpc.calls # <<>> /\ rpc.calls[Len(rpc.calls)] \notin {Ok, TransportError}) =>
        /\ rpc.pc = "done" /\ rpc.by = "none"
        /\ rpc.response = rpc.calls[Len(rpc.calls)]

\* a call that failed with Unknown "transport error" was tried again, and the
\* second try ended the forward with a status that is not retried
C20_Witness ==
    /\ Len(rpc.calls) = 2
    /\ rpc.calls[1] = TransportError
    /\ rpc.calls[2] = Status("Unknown", "other")
    /\ rpc.pc = "done"

\* ================================================= the clock of a forward
\* ExponentialBackoffBuilder of do_in_target!, times in milliseconds
InitialInterval == 50
Multiplier == 10
RandomizationPercent == 50
MaxInterval == 3000
MaxElapsedTime == 20000

\* what rand::random picks inside the randomization factor: the least, the
\* middle and the greatest delay of an interval
Randoms == {100 - RandomizationPercent, 100, 100 + RandomizationPercent}
RandomizedInterval(current_interval, random) == (current_interval * random) \div 100

\* the time a dial takes before it fails
DialTimes == {0, MaxDialMs}

\* ExponentialBackoff::increment_current_interval
IncrementCurrentInterval(current_interval) ==
    IF current_interval * Multiplier >= MaxInterval THEN MaxInterval
    ELSE current_interval * Multiplier

\* retry_strategy.next_backoff() : None once the budget is spent, or when the
\* delay drawn would end after it
NextBackoffDelay_ElapsedOnly(elapsed, current_interval, random) ==
    IF elapsed > MaxElapsedTime THEN None
    ELSE Some(RandomizedInterval(current_interval, random))
NextBackoffDelay(elapsed, current_interval, random) ==
    IF elapsed > MaxElapsedTime THEN None
    ELSE IF elapsed + RandomizedInterval(current_interval, random) <= MaxElapsedTime
    THEN Some(RandomizedInterval(current_interval, random))
    ELSE None

\* From<ClientError> for Status
Unavailable == Status("Unavailable", "")
ClientErrorStatus(outcome) ==
    IF outcome = "ConnectionError" THEN Unavailable ELSE Status("Unknown", "")

\* do_in_target! builds its retry_strategy: the clock of the backoff starts
BuildBackoff ==
    /\ retry.pc = "idle"
    /\ retry' = [NoRetry EXCEPT !.pc = "dial", !.current_interval = InitialInterval]
    /\ UNCHANGED <<exeVars, vmVars, routeVars, observe, shutdown, locks, tasks>>

\* one turn of the dial loop: the dial, and on a connection error the
\* next_backoff() and the sleep it asks for
DialTurn(outcome, time, random) ==
    /\ retry.pc = "dial"
    /\ LET elapsed == retry.elapsed + time
           delay == NextBackoffDelay(elapsed, retry.current_interval, random)
           r == [retry EXCEPT !.dials = @ + 1, !.lastDial = time, !.elapsed = elapsed]
       IN retry' =
            IF outcome = "Ok" THEN [r EXCEPT !.pc = "call"]
            ELSE IF RetryDial(outcome) /\ IsSome(delay)
            THEN [r EXCEPT !.elapsed = elapsed + Unwrap(delay),
                           !.current_interval = IncrementCurrentInterval(@)]
            ELSE [r EXCEPT !.pc = "done", !.response = ClientErrorStatus(outcome)]
    /\ UNCHANGED <<exeVars, vmVars, routeVars, observe, shutdown, locks, tasks>>

\* the forward is over: its handler returns
RetryReturns ==
    /\ retry.pc \in {"call", "done"}
    /\ retry' = NoRetry
    /\ UNCHANGED <<exeVars, vmVars, routeVars, observe, shutdown, locks, tasks>>

NextRetry ==
    \/ BuildBackoff
    \/ \E outcome \in DialOutcomes, time \in DialTimes, random \in Randoms :
            DialTurn(outcome, time, random)
    \/ RetryReturns

SpecRetry == Init /\ [][NextRetry]_vars

\* the dial loop gave up on connection errors
GaveUp == retry.pc = "done" /\ retry.response = Unavailable

\* the greatest delay next_backoff() can draw
MaxDelay == (MaxInterval * (100 + RandomizationPercent)) \div 100

\* C21 as claimed: a forward whose dials see only connection errors ends with
\* "unavailable" after between 20 s and 22 s.
C21_AsClaimed ==
    GaveUp => (20000 <= retry.elapsed /\ retry.elapsed <= 22000)

\* C21: a forward whose dials see only connection errors does not retry
\* forever: it makes a bounded number of dials and ends with "unavailable" as
\* soon as the next delay would end after the 20 s budget, that is after more
\* than 15.5 s (20 s less the longest delay) and no later than 20 s plus the
\* time the last dial took.
C21_RetryBudget ==
    /\ retry.pc = "dial" => retry.elapsed <= MaxElapsedTime
    /\ retry.dials * (InitialInterval \div 2) <= MaxElapsedTime + MaxDialMs
    /\ GaveUp =>
        /\ retry.elapsed > MaxElapsedTime - MaxDelay
        /\ retry.elapsed <= MaxElapsedTime + retry.lastDial

\* the loop gave up before 20 s had passed, after more than two dials
C21_Witness ==
    /\ GaveUp
    /\ retry.elapsed < MaxElapsedTime
    /\ retry.dials > 2

\* ============================================ requests into VMs that change
\* the requests that name a VM and nothing else
VmRequests == {CellServiceListRequest(Some(ExecutionTarget(Some(id), None))) : id \in VmIds}

\* the VM service and the routing of requests into its VMs, side by side
\* the VmService handlers serve requests beside the router and the shutdown
VmRequest == vmCalls < MaxVmRequests /\ NextVm

NextVmRoute ==
    \/ VmRequest
    \/ \E req \in VmRequests, certOk \in BOOLEAN : Forward(req, certOk)
    \/ \E outcome \in DialOutcomes, timeLeft \in BOOLEAN : Dial(outcome, timeLeft)
    \/ \E status \in CallStatuses, timeLeft \in BOOLEAN : Call(status, timeLeft)
    \/ Respond

SpecVmRoute == Init /\ [][NextVmRoute]_vars

\* the VM a target names is in the registry and Running
VmRunning(v, target) ==
    /\ Unwrap(target.vm_id) \in DOMAIN v
    /\ v[Unwrap(target.vm_id)].state = "Running"

\* C22: the guest socket of a VM is handed out only while the VM is Running:
\* a request that names a vm_id is resolved to the VM's socket if the VM is
\* Running at that moment; if the id is unknown, or the VM is not started or
\* has been stopped, the request ends at once with VmNotRunning and without a
\* dial.
C22_SocketOnlyWhileRunning ==
    [][(rpc.pc = "idle" /\ rpc'.target # None /\ IsSome(Unwrap(rpc'.target).vm_id)) =>
        IF VmRunning(vms, Unwrap(rpc'.target))
        THEN /\ rpc'.resolved.kind = "Vm"
             /\ rpc'.resolved.socket = VmSocket(Unwrap(Unwrap(rpc'.target).vm_id))
        ELSE /\ rpc'.pc = "done"
             /\ rpc'.response = VmNotRunning
             /\ rpc'.dials = <<>>]_vars

\* a request into a VM that was started and then stopped ended with VmNotRunning
C22_Witness ==
    /\ rpc.pc = "done"
    /\ rpc.response = VmNotRunning
    /\ Unwrap(RpcTarget.vm_id) \in DOMAIN vms
    /\ vms[Unwrap(RpcTarget.vm_id)].vmm # NoVmm
    /\ vmms[vms[Unwrap(RpcTarget.vm_id)].vmm].run = "Stopped"

\* ================================= the local start and stop of CellService
\* LogChannelType
LogChannelTypes == {"Stdout", "Stderr"}

\* ObserveService::register_sub_process_channel and unregister_sub_process_channel
\* on the set of registered (pid, type) pairs; the handlers only log their errors
RegisterSubProcessChannel(ch, pid, type) == ch \cup {<<pid, type>>}
UnregisterSubProcessChannel(ch, pid, type) == ch \ {<<pid, type>>}

\* ObserveService::has_sub_process_channel
HasSubProcessChannel(ch, pid, type) == <<pid, type>> \in ch

\* mutant: only the stdout channel is registered
StartChannels_StdoutOnly(ch, r) ==
    IF r.res = "Ok" THEN RegisterSubProcessChannel(ch, r.pid, "Stdout") ELSE ch

\* the channels after the local start, r being what Executables::start returned
StartChannels(ch, r) ==
    IF r.res = "Ok"
    THEN RegisterSubProcessChannel(RegisterSubProcessChannel(ch, r.pid, "Stdout"),
                                   r.pid, "Stderr")
    ELSE ch

\* the steps the local start takes, in order
StartSteps(r) ==
    IF r.res = "Ok"
    THEN <<"executables.start", "pid", "register Stdout", "register Stderr", "metadata">>
    ELSE <<"executables.start">>

\* the channels after the local stop, r being what Executables::stop returned
StopChannels(ch, pid, r) ==
    IF r.res = "Ok"
    THEN UnregisterSubProcessChannel(UnregisterSubProcessChannel(ch, pid, "Stdout"),
                                     pid, "Stderr")
    ELSE ch

\* the steps the local stop takes, in order
StopSteps(found, r) ==
    IF ~found THEN <<"executables.get">>
    ELSE IF r.res = "Ok"
    THEN <<"executables.get", "pid", "executables.stop", "unregister Stdout",
           "unregister Stderr">>
    ELSE <<"executables.get", "pid", "executables.stop">>

\* CellService::start(request) with cell_name = None and executable.name = name;
\* metadataOk is whether /proc/self could be read
LocalStart(name, metadataOk) ==
    /\ Len(history) < MaxCalls
    /\ \E spawn \in ExecutableStart(procs) :
        LET r == ExecutablesStart(cache, name, spawn)
            call == [op |-> "start", name |-> name, res |-> r.res, status |-> 0,
                     found |-> name \in DOMAIN cache, running |-> FALSE, spawn |-> spawn,
                     spawned |-> r.spawned, kill |-> NoKill, before |-> cache]
        IN /\ cache' = r.cache
           /\ procs' = IF r.spawned THEN procs \cup {r.pid} ELSE procs
           /\ exeLast' = call
           /\ history' = Append(history, Entry(call))
           /\ observe' = [channels |-> StartChannels(observe.channels, r),
                          last |-> [op |-> "start", name |-> name,
                                    res |-> IF r.res = "Ok" /\ ~metadataOk THEN "Io" ELSE r.res,
                                    pid |-> r.pid, steps |-> StartSteps(r),
                                    before |-> observe.channels]]
    /\ UNCHANGED vmVars
    /\ UNCHANGED routeVars
    /\ UNCHANGED <<retry, shutdown, locks, tasks>>

\* CellService::stop(request) with cell_name = None and executable_name = name
LocalStop(name) ==
    /\ Len(history) < MaxCalls
    /\ \E kill \in ExecutableKill(Target(cache, name), procs) :
        LET r == ExecutablesStop(cache, name, kill)
            call == [op |-> "stop", name |-> name, res |-> r.res, status |-> r.status,
                     found |-> name \in DOMAIN cache,
                     running |-> Target(cache, name).pid \in procs,
                     spawn |-> SpawnFailed, spawned |-> FALSE,
                     kill |-> IF r.killed THEN kill ELSE NoKill, before |-> cache]
        IN /\ cache' = r.cache
           /\ procs' = IF r.killed /\ kill.tag = "Some"
                       THEN procs \ {Target(cache, name).pid} ELSE procs
           /\ exeLast' = call
           /\ history' = Append(history, Entry(call))
           /\ observe' = [channels |-> StopChannels(observe.channels,
                                                    Target(cache, name).pid, r),
                          last |-> [op |-> "stop", name |-> name, res |-> r.res,
                                    pid |-> Target(cache, name).pid,
                                    steps |-> StopSteps(name \in DOMAIN cache, r),
                                    before |-> observe.channels]]
    /\ UNCHANGED vmVars
    /\ UNCHANGED routeVars
    /\ UNCHANGED <<retry, shutdown, locks, tasks>>

NextCell ==
    \/ \E name \in ExecutableNames, metadataOk \in BOOLEAN : LocalStart(name, metadataOk)
    \/ \E name \in ExecutableNames : LocalStop(name)
    \/ \E pid \in Pids : ProcessExit(pid)

SpecCell == Init /\ [][NextCell]_vars

\* the step a comes before the step b in the steps of the last local call
StepBefore(a, b) ==
    \E i, j \in 1..Len(observe.last.steps) :
        i < j /\ observe.last.steps[i] = a /\ observe.last.steps[j] = b

\* both / neither of the channels of a pid are registered
BothRegistered(pid) ==
    \A type \in LogChannelTypes : HasSubProcessChannel(observe.channels, pid, type)
NoneRegistered(pid) ==
    \A type \in LogChannelTypes : ~HasSubProcessChannel(observe.channels, pid, type)

C24_UnregisteredAfterFailedKill ==
    (/\ observe.last.op = "stop"
     /\ exeLast.found
     /\ exeLast.kill.tag = "Err"
     /\ observe.last.res = "FailedToStopExecutable") =>
        NoneRegistered(observe.last.pid)

\* ======================================================= GracefulShutdown
\* an entry of the log of wait: a step it has finished, and what the step returned
Step(step, res) == [step |-> step, res |-> res]

\* mutant: the VMs are torn down before the executables and the cells
WaitNext_VmsFirst(pc, res) ==
    IF res = "Panic" THEN "panicked"
    ELSE CASE pc = "new" -> "closed"
           [] pc = "closed" -> "vm_stop_all"
           [] pc = "vm_stop_all" -> "vm_free_all"
           [] pc = "vm_free_all" -> "cell_stop_all"
           [] pc = "cell_stop_all" -> IF res = "Ok" THEN "cell_free_all" ELSE "returned"
           [] pc = "cell_free_all" -> "returned"

\* mutant: VmService::free_all is skipped when stop_all returned an error
WaitNext_SkipVmFreeOnError(pc, res) ==
    IF res = "Panic" THEN "panicked"
    ELSE CASE pc = "new" -> "closed"
           [] pc = "closed" -> "cell_stop_all"
           [] pc = "cell_stop_all" -> IF res = "Ok" THEN "cell_free_all" ELSE "vm_stop_all"
           [] pc = "cell_free_all" -> "vm_stop_all"
           [] pc = "vm_stop_all" -> IF res = "Ok" THEN "vm_free_all" ELSE "returned"
           [] pc = "vm_free_all" -> "returned"

\* mutant: the cells are freed before the executables are stopped
WaitNext_FreeCellsFirst(pc, res) ==
    IF res = "Panic" THEN "panicked"
    ELSE CASE pc = "new" -> "closed"
           [] pc = "closed" -> "cell_free_all"
           [] pc = "cell_free_all" -> "cell_stop_all"
           [] pc = "cell_stop_all" -> "vm_stop_all"
           [] pc = "vm_stop_all" -> "vm_free_all"
           [] pc = "vm_free_all" -> "returned"

\* GracefulShutdown::wait : where it goes on from pc when the step there has
\* returned res; a panic of a step unwinds wait itself
WaitNext(pc, res) ==
    IF res = "Panic" THEN "panicked"
    ELSE CASE pc = "new" -> "closed"
           [] pc = "closed" -> "cell_stop_all"
           [] pc = "cell_stop_all" -> IF res = "Ok" THEN "cell_free_all" ELSE "vm_stop_all"
           [] pc = "cell_free_all" -> "vm_stop_all"
           [] pc = "vm_stop_all" -> "vm_free_all"
           [] pc = "vm_free_all" -> "returned"

\* wait after the step at its pc has returned res
Waited(step, res) ==
    [shutdown EXCEPT !.pc = WaitNext(shutdown.pc, res),
                     !.log = Append(shutdown.log, Step(step, res))]

\* GracefulShutdown::subscribe, and a subscriber dropping its receiver
Subscribe ==
    /\ shutdown.pc = "new"
    /\ shutdown.subs < MaxSubscribers
    /\ shutdown' = [shutdown EXCEPT !.subs = @ + 1]
    /\ UNCHANGED <<exeVars, vmVars, routeVars, retry, observe, locks, tasks>>

DropReceiver ==
    /\ shutdown.subs > 0
    /\ shutdown' = [shutdown EXCEPT !.subs = @ - 1]
    /\ UNCHANGED <<exeVars, vmVars, routeVars, retry, observe, locks, tasks>>

\* wait: the first SIGTERM or SIGINT arrives; every health probe is set to
\* not-serving and the shutdown is broadcast
Signal(sig) ==
    /\ shutdown.pc = "new"
    /\ shutdown' = [shutdown EXCEPT
                      !.pc = WaitNext("new", "Ok"),
                      !.signal = sig,
                      !.serving = {},
                      !.log = <<Step("set_not_serving", "Ok"), Step("send_replace", "Ok")>>]
    /\ UNCHANGED <<exeVars, vmVars, routeVars, retry, observe, locks, tasks>>

\* wait: shutdown_broadcaster.closed() returns once no receiver is left
Closed ==
    /\ shutdown.pc = "closed"
    /\ shutdown.subs = 0
    /\ shutdown' = Waited("closed", "Ok")
    /\ UNCHANGED <<exeVars, vmVars, routeVars, retry, observe, locks, tasks>>

\* wait: CellService::stop_all, i.e. Executables::broadcast_stop: every
\* executable is killed, the outcome is logged, every entry is removed; Ok
CellStopAll ==
    /\ shutdown.pc = "cell_stop_all"
    /\ \E kills \in [DOMAIN cache ->
                       UNION {ExecutableKill(cache[n], procs) : n \in DOMAIN cache}] :
          /\ \A n \in DOMAIN cache : kills[n] \in ExecutableKill(cache[n], procs)
          /\ procs' = procs \ {cache[n].pid : n \in {m \in DOMAIN cache : kills[m].tag = "Some"}}
          /\ shutdown' = [Waited("cell stop_all", "Ok") EXCEPT
                            !.log = Append(shutdown.log,
                                      [step |-> "cell stop_all", res |-> "Ok",
                                       failed |-> {n \in DOMAIN cache :
                                                     StopResult(kills[n]).res # "Ok"}])]
    /\ cache' = EmptyMap
    /\ UNCHANGED <<history, exeLast, vmVars, routeVars, retry, observe, locks, tasks>>

\* wait: CellService::free_all: broadcast_free, then broadcast_kill; Ok
CellFreeAll ==
    /\ shutdown.pc = "cell_free_all"
    /\ cells' = {}
    /\ shutdown' = Waited("cell free_all", "Ok")
    /\ UNCHANGED <<exeVars, vmVars, vm_service, rpc, retry, observe, locks, tasks>>

\* what a broadcast over the VMs returns for the results of its VMs
BroadcastResult(results) ==
    IF \E id \in DOMAIN results : results[id] = "Panic" THEN "Panic"
    ELSE IF \E id \in DOMAIN results : results[id] = "Deadlock" THEN "Deadlock"
    ELSE IF \A id \in DOMAIN results : results[id] = "Ok" THEN "Ok"
    ELSE "Err"

\* wait: VmService::stop_all takes the vms lock and stops every VM
VmStopAll ==
    /\ shutdown.pc = "vm_stop_all"
    /\ ~vmsLocked
    /\ LET r == [id \in DOMAIN vms |-> VirtualMachineStop(vms[id], vmms)]
           res == BroadcastResult([id \in DOMAIN vms |-> r[id].res])
       IN /\ vms' = [id \in DOMAIN vms |-> r[id].vm]
          /\ vmms' = [h \in DOMAIN vmms |->
                        IF \E id \in DOMAIN vms : vms[id].vmm = h /\ r[id].call = "stop"
                        THEN [vmms[h] EXCEPT !.run = "Stopped"] ELSE vmms[h]]
          /\ traj' = [id \in DOMAIN traj |->
                        IF id \in DOMAIN vms /\ r[id].call = "stop"
                        THEN Append(traj[id], "NotStarted") ELSE traj[id]]
          /\ shutdown' = Waited("vm stop_all", res)
    /\ UNCHANGED <<vmsLocked, vmCalls, vmLast, exeVars, routeVars, retry, observe, locks, tasks>>

\* wait: VmService::free_all takes the vms lock and frees every VM
VmFreeAll ==
    /\ shutdown.pc = "vm_free_all"
    /\ ~vmsLocked
    /\ \E relock \in Relock :
        LET r == [id \in DOMAIN vms |-> VirtualMachineFree(vms[id], vmms, relock)]
            res == BroadcastResult([id \in DOMAIN vms |-> r[id].res])
        IN /\ vms' = IF res \in {"Ok", "Err"} THEN EmptyMap ELSE vms
           /\ vmsLocked' = (res = "Deadlock")
           /\ shutdown' = IF res = "Deadlock" THEN shutdown ELSE Waited("vm free_all", res)
    /\ UNCHANGED <<vmms, traj, vmCalls, vmLast, exeVars, routeVars, retry, observe, locks, tasks>>

NextShutdown ==
    \/ VmRequest
    \/ Subscribe
    \/ DropReceiver
    \/ \E sig \in {"SIGTERM", "SIGINT"} : Signal(sig)
    \/ Closed
    \/ CellStopAll
    \/ CellFreeAll
    \/ VmStopAll
    \/ VmFreeAll

\* the executables registries of up to MaxNames started executables
StartedRegistries ==
    {[name \in 1..n |-> StartedExecutable(name, name)] : n \in 0..MaxNames}

\* the agent with some executables running and some cells allocated
InitShutdown ==
    /\ InitVm /\ InitSvc
    /\ cache \in StartedRegistries
    /\ procs = {cache[name].pid : name \in DOMAIN cache}
    /\ history = <<>>
    /\ exeLast = NoCall
    /\ cells \in {{}, CellNames}
    /\ vm_service = TRUE
    /\ rpc = NoRpc

SpecShutdown == InitShutdown /\ [][NextShutdown]_vars

\* ------------------------------------------------------- claims on shutdown
\* the steps wait has finished so far, oldest first
Steps == [i \in 1..Len(shutdown.log) |-> shutdown.log[i].step]
Logged(step) == \E i \in 1..Len(shutdown.log) : shutdown.log[i].step = step
Teardown == {"cell stop_all", "cell free_all", "vm stop_all", "vm free_all"}

\* C25: the steps of the shutdown come in one order: every health probe set
\* to not-serving, the broadcast, all subscribers dropped, stop of all
\* executables, free of all cells, stop of all VMs, free of all VMs; nothing
\* is logged before the signal, no probe is serving once the broadcast is
\* sent, and wait is past the drop of the subscribers only when none is left,
\* so no teardown step comes before that.
C25_ShutdownOrder ==
    /\ IsPrefix(Steps, <<"set_not_serving", "send_replace", "closed", "cell stop_all",
                         "cell free_all", "vm stop_all", "vm free_all">>)
    /\ shutdown.pc = "new" => (shutdown.log = <<>> /\ shutdown.serving = Services)
    /\ Logged("send_replace") => shutdown.serving = {}
    /\ shutdown.pc \notin {"new", "closed"} => (shutdown.subs = 0 /\ Logged("closed"))
    /\ \A i \in 1..Len(shutdown.log) :
          shutdown.log[i].step \in Teardown =>
             \E j \in 1..(i - 1) : shutdown.log[j].step = "closed"

\* wait returned after a SIGINT with all seven steps done, executables and
\* cells having been there to tear down
C25_Witness ==
    /\ shutdown.pc = "returned"
    /\ shutdown.signal = "SIGINT"
    /\ Len(shutdown.log) = 7
    /\ shutdown.log[4].failed # {}
    /\ cache = EmptyMap /\ cells = {} /\ vms = EmptyMap

\* C26: VmService::free_all comes directly after VmService::stop_all has
\* returned, and it comes whether stop_all returned Ok or an error.
C26_VmFreeAfterVmStop ==
    /\ \A i \in 1..Len(shutdown.log) :
          shutdown.log[i].step = "vm free_all" =>
             (i > 1 /\ shutdown.log[i - 1].step = "vm stop_all")
    /\ shutdown.pc = "vm_free_all" <=>
          /\ shutdown.log # <<>>
          /\ shutdown.log[Len(shutdown.log)].step = "vm stop_all"
          /\ shutdown.log[Len(shutdown.log)].res \in {"Ok", "Err"}

\* the VMs were freed after stop_all had returned an error
C26_Witness ==
    /\ Len(shutdown.log) >= 2
    /\ shutdown.log[Len(shutdown.log)].step = "vm free_all"
    /\ shutdown.log[Len(shutdown.log) - 1].res = "Err"

C28_WaitReturns ==
    /\ ~(shutdown.pc \in {"vm_stop_all", "vm_free_all"} /\ vmsLocked)
    /\ shutdown.pc # "panicked"

\* ------------------------------------------- VmService errors to the caller
\* C29: Start, Stop and Free of a vm_id that is not in the registry return
\* VmNotFound to the caller and leave the registry as it was.
C29_UnknownIdNotFound ==
    (vmLast.op \in {"start", "stop", "free"} /\ ~Addressed) =>
        (vmLast.res = "VmNotFound" /\ vms = vmLast.before)

\* C30: an Allocate of a new id whose microVM could not be built returns a
\* BadConfiguration error to the caller, and the service goes on serving.
C30_BuildFailureReturned ==
    (/\ vmLast.op = "allocate"
     /\ ~Addressed
     /\ vmLast.id \in DOMAIN vms
     /\ ~vmLast.built) =>
        (vmLast.res = "BadConfiguration" /\ ~vmsLocked)

\* ------------------------------------------------ failed starts, local asserts
\* C32: a start whose spawn fails returns FailedToStartExecutable and leaves
\* the registry exactly as it was, the name not inserted; the next start of
\* that name is not refused as a duplicate.
C32_FailedSpawnLeavesRegistry ==
    /\ (exeLast.op = "start" /\ ~exeLast.found /\ ~exeLast.spawn.ok) =>
          /\ exeLast.res = "FailedToStartExecutable"
          /\ cache = exeLast.before
          /\ exeLast.name \notin DOMAIN cache
    /\ \A n \in ExecutableNames : \A i, j \in Calls :
          (/\ IsCall(i, "start", n) /\ history[i].res = "FailedToStartExecutable"
           /\ IsCall(j, "start", n) /\ Adjacent(i, j, n))
              => history[j].res # "ExecutableExists"

\* a start failed at the spawn and the next start of the same name succeeded
C32_Witness ==
    /\ exeLast.op = "start" /\ exeLast.res = "Ok"
    /\ \E i \in Calls :
          /\ IsCall(i, "start", exeLast.name)
          /\ history[i].res = "FailedToStartExecutable"
          /\ Adjacent(i, Len(history), exeLast.name)

\* C37: no Start or Stop the facade hands to the local handler trips the
\* handler's assertion that cell_name is absent.
C37_LocalAssertHolds ==
    (rpc.by = "local" /\ rpc.req.kind \in {"Start", "Stop"}) =>
        rpc.response.code # "Panic"

\* C38: when the local start returns an error for a failed spawn or a failed
\* read of the agent's uid/gid, no executable of that name is in the registry
\* and no process the call started is running.
C38_StartAllOrNothing ==
    (observe.last.op = "start" /\ observe.last.res \in {"FailedToStartExecutable", "Io"}) =>
        /\ observe.last.name \notin DOMAIN cache
        /\ exeLast.spawn.pid \notin procs

\* C39: a VirtualMachine::start that returned the error of a failed resume
\* leaves the VM NotStarted, and no VM is Running while its microVM is paused.
C39_FailedResumeNotRunning ==
    /\ (vmLast.op = "start" /\ Addressed /\ vmLast.err = "VmNotFound") =>
          vms[vmLast.id].state = "NotStarted"
    /\ \A id \in DOMAIN vms :
          (vms[id].state = "Running" /\ vms[id].vmm # NoVmm) =>
              vmms[vms[id].vmm].run # "Paused"


\* ============================================== local handlers side by side
\* a Vec of the elements of a set, in the order the map yields them (the order
\* of a HashMap's values is not specified; one order stands for all of them)
RECURSIVE SeqOf(_)
SeqOf(S) == IF S = {} THEN <<>>
            ELSE LET x == CHOOSE x \in S : TRUE IN <<x>> \o SeqOf(S \ {x})

\* CellsCache::get_all on the cache of `parent` (the registry itself for <<>>):
\* the cells that cache holds, which are the cells allocated right under it
CellsGetAll(cs, parent) == SeqOf({c \in cs : Parent(c) = parent})

\* TryFrom<&Cell> for CellGraphNode : the cell, and the nodes of its children
RECURSIVE CellGraphNode(_, _)
CellGraphNode(cs, value) ==
    LET kids == CellsGetAll(cs, value)
    IN [cell |-> Some([name |-> value]),
        children |-> [i \in 1..Len(kids) |-> CellGraphNode(cs, kids[i])]]

\* mutant: the top level holds every cell of the registry, nested ones too
ListCells_Flat(cs) ==
    LET all == SeqOf(cs) IN [i \in 1..Len(all) |-> CellGraphNode(cs, all[i])]

\* CellService::list (local): the nodes of the cells the registry holds
ListCells(cs) ==
    LET roots == CellsGetAll(cs, <<>>)
    IN [i \in 1..Len(roots) |-> CellGraphNode(cs, roots[i])]

\* tasks are numbered in the order their handlers are called
Called(t) == t \in TaskIds => tasks[t].pc # "idle"

\* a local Allocate, Free or List runs in task t: cells.lock().await, the call
\* on the registry, and the guard dropped when the handler returns
LocalCellsCall(t, req) ==
    /\ tasks[t].pc = "idle"
    /\ Called(t - 1)
    /\ locks.cells = None
    /\ cells' = LocalHandler(cells, req).cells
    /\ tasks' = [tasks EXCEPT ![t] =
            [NoTask EXCEPT !.pc = "done", !.op = req.kind,
                           !.res = LocalHandler(cells, req).response.code,
                           !.cell = IF req.kind = "Allocate" THEN req.cell
                                    ELSE IF req.kind = "Free" THEN req.cell_name ELSE <<>>,
                           !.listed = IF req.kind = "List" THEN ListCells(cells) ELSE <<>>,
                           !.during = rpc.pc, !.dials = Len(rpc.dials)]]
    /\ UNCHANGED <<exeVars, vmVars, vm_service, rpc, retry, observe, shutdown, locks>>

\* ------------------------------------------------------------ List as a tree
\* the cells a registry can hold after some Allocate calls: names of up to three
\* segments, every nested cell under an allocated parent
ListSegments == {"a", "b"}
ListNames ==
    {<<a>> : a \in ListSegments}
    \cup {<<a, b>> : a \in ListSegments, b \in ListSegments}
    \cup {<<a, b>> \o <<c>> : a \in ListSegments, b \in ListSegments, c \in ListSegments}
ListRegistries ==
    {cs \in SUBSET ListNames : \A c \in cs : Len(c) > 1 => Parent(c) \in cs}

InitList ==
    /\ InitExe /\ InitVm /\ InitSvc
    /\ cells \in ListRegistries
    /\ vm_service = TRUE
    /\ rpc = NoRpc

NextList == \E t \in TaskIds : LocalCellsCall(t, CellServiceListRequest(None))

SpecList == InitList /\ [][NextList]_vars

\* every place a cell takes in a forest: its name, and the cell it is under
\* (<<>> at the top level)
RECURSIVE Places(_, _)
Places(forest, under) ==
    IF forest = <<>> THEN <<>>
    ELSE LET node == Head(forest)
         IN <<[name |-> Unwrap(node.cell).name, under |-> under]>>
            \o Places(node.children, Unwrap(node.cell).name)
            \o Places(Tail(forest), under)

Listed(t) == tasks[t].pc = "done" /\ tasks[t].op = "List"

\* C31: the forest List returns has exactly the root cells at its top level,
\* and every allocated cell in exactly one place: a root at the top level, a
\* nested cell among the children of the node of its parent; nothing else is
\* in the forest
C31_ListIsForest ==
    \A t \in TaskIds : Listed(t) =>
        LET places == Places(tasks[t].listed, <<>>)
            top == {tasks[t].listed[i].cell : i \in 1..Len(tasks[t].listed)}
        IN /\ top = {Some([name |-> c]) : c \in {r \in cells : Len(r) = 1}}
           /\ Len(tasks[t].listed) = Cardinality({r \in cells : Len(r) = 1})
           /\ \A c \in cells :
                Cardinality({i \in 1..Len(places) : places[i].name = c}) = 1
           /\ \A i \in 1..Len(places) :
                /\ places[i].name \in cells
                /\ places[i].under = Parent(places[i].name)

\* a List of a registry with two roots and a cell two levels down
C31_Witness ==
    \E t \in TaskIds :
        /\ Listed(t)
        /\ Len(tasks[t].listed) = 2
        /\ \E c \in cells : Len(c) = 3
        /\ \E i \in 1..2 : \E j \in 1..Len(tasks[t].listed[i].children) :
              tasks[t].listed[i].children[j].children # <<>>

\* ------------------------------------------- the executables lock, task by task
\* self.executables.lock().await returns when nobody holds the tokio Mutex
\* mutant: the lock is handed out while another task holds it
TryLock_NotExclusive(owner) == TRUE
TryLock(owner) == owner = None

Held(t) == [locks EXCEPT !.executables = Some(t)]
Released == [locks EXCEPT !.executables = None]
\* the place a task takes in the order the lock was handed out
NextAt == 1 + Cardinality({u \in TaskIds : tasks[u].at > 0})
Range(q) == {q[i] : i \in 1..Len(q)}

\* broadcast_stop after the kill of one entry has returned: the loop goes on
\* to the next value of the cache whatever the kill returned, and the removal
\* loop starts when the values are used up
\* mutant: the loop is left at the first kill that fails
BroadcastAfterKill_StopAtError(pending, kill) ==
    IF pending = {} \/ kill.tag = "Err" THEN "remove" ELSE "kill"
BroadcastAfterKill(pending, kill) == IF pending = {} THEN "remove" ELSE "kill"

\* a local Start, Stop or stop_all is called in task t and waits for the lock
ExeRequest(t, op, name) ==
    /\ tasks[t].pc = "idle"
    /\ Called(t - 1)
    /\ tasks' = [tasks EXCEPT ![t] =
            [NoTask EXCEPT !.pc = "lock", !.op = op, !.name = name,
                           !.raced = \E u \in TaskIds : tasks[u].pc \notin {"idle", "done"}]]
    /\ UNCHANGED <<exeVars, vmVars, routeVars, retry, observe, shutdown, locks>>

\* start gets the lock and calls executables.start; on Ok it goes on, the
\* guard alive, to the awaits that register the log channels
StartLocked(t, spawn) ==
    /\ tasks[t].pc = "lock" /\ tasks[t].op = "start"
    /\ TryLock(locks.executables)
    /\ spawn \in ExecutableStart(procs)
    /\ LET r == ExecutablesStart(cache, tasks[t].name, spawn)
       IN /\ cache' = r.cache
          /\ procs' = IF r.spawned THEN procs \cup {r.pid} ELSE procs
          /\ tasks' = [tasks EXCEPT ![t] =
                [@ EXCEPT !.pc = IF r.res = "Ok" THEN "register" ELSE "done",
                          !.res = r.res, !.at = NextAt,
                          !.found = tasks[t].name \in DOMAIN cache,
                          !.spawned = r.spawned]]
          /\ locks' = IF r.res = "Ok" THEN Held(t) ELSE Released
    /\ UNCHANGED <<history, exeLast, vmVars, routeVars, retry, observe, shutdown>>

\* start returns: the guard is dropped
StartReturns(t) ==
    /\ tasks[t].pc = "register"
    /\ tasks' = [tasks EXCEPT ![t].pc = "done"]
    /\ locks' = Released
    /\ UNCHANGED <<exeVars, vmVars, routeVars, retry, observe, shutdown>>

\* stop gets the lock: executables.get(name)? returns ExecutableNotFound, or
\* executables.stop(name) begins the kill and awaits it, the guard alive
StopLocked(t) ==
    /\ tasks[t].pc = "lock" /\ tasks[t].op = "stop"
    /\ TryLock(locks.executables)
    /\ IF tasks[t].name \in DOMAIN cache
       THEN /\ tasks' = [tasks EXCEPT ![t] =
                    [@ EXCEPT !.pc = "killing", !.current = tasks[t].name, !.at = NextAt,
                              !.found = TRUE, !.killed = TRUE]]
            /\ locks' = Held(t)
       ELSE /\ tasks' = [tasks EXCEPT ![t] =
                    [@ EXCEPT !.pc = "done", !.res = "ExecutableNotFound", !.at = NextAt]]
            /\ locks' = Released
    /\ UNCHANGED <<exeVars, vmVars, routeVars, retry, observe, shutdown>>

\* the kill stop awaits returns: the entry is removed, the result is matched,
\* the guard is dropped at the end of the block
StopKillReturns(t, kill) ==
    /\ tasks[t].pc = "killing" /\ tasks[t].op = "stop"
    /\ kill \in ExecutableKill(Target(cache, tasks[t].name), procs)
    /\ LET r == ExecutablesStop(cache, tasks[t].name, kill)
       IN /\ cache' = r.cache
          /\ procs' = IF kill.tag = "Some"
                      THEN procs \ {Target(cache, tasks[t].name).pid} ELSE procs
          /\ tasks' = [tasks EXCEPT ![t] = [@ EXCEPT !.pc = "done", !.res = r.res]]
    /\ locks' = Released
    /\ UNCHANGED <<history, exeLast, vmVars, routeVars, retry, observe, shutdown>>

\* stop_all gets the lock and calls broadcast_stop, which begins the kill of
\* the first value of the cache and awaits it; with an empty cache it returns
StopAllLocked(t) ==
    /\ tasks[t].pc = "lock" /\ tasks[t].op = "stop_all"
    /\ TryLock(locks.executables)
    /\ IF cache = EmptyMap
       THEN /\ tasks' = [tasks EXCEPT ![t] =
                    [@ EXCEPT !.pc = "done", !.res = "Ok", !.at = NextAt]]
            /\ locks' = Released
       ELSE /\ \E n \in DOMAIN cache :
                tasks' = [tasks EXCEPT ![t] =
                    [@ EXCEPT !.pc = "killing", !.current = n, !.at = NextAt,
                              !.before = DOMAIN cache, !.pending = (DOMAIN cache) \ {n},
                              !.order = <<n>>]]
            /\ locks' = Held(t)
    /\ UNCHANGED <<exeVars, vmVars, routeVars, retry, observe, shutdown>>

\* the kill broadcast_stop awaits returns: its outcome is logged and the name
\* pushed; then the kill of the next value begins, or the names are removed
\* from the cache and stop_all returns Ok
StopAllKillReturns(t, kill) ==
    /\ tasks[t].pc = "killing" /\ tasks[t].op = "stop_all"
    /\ kill \in ExecutableKill(Target(cache, tasks[t].current), procs)
    /\ procs' = IF kill.tag = "Some"
                THEN procs \ {Target(cache, tasks[t].current).pid} ELSE procs
    /\ LET failed == IF kill.tag = "Err" THEN tasks[t].failed \cup {tasks[t].current}
                     ELSE tasks[t].failed
       IN IF BroadcastAfterKill(tasks[t].pending, kill) = "kill"
          THEN /\ \E n \in tasks[t].pending :
                    tasks' = [tasks EXCEPT ![t] =
                        [@ EXCEPT !.current = n, !.pending = @ \ {n},
                                  !.order = Append(@, n), !.failed = failed]]
               /\ UNCHANGED <<cache, locks>>
          ELSE LET left == [n \in (DOMAIN cache) \ Range(tasks[t].order) |-> cache[n]]
               IN /\ cache' = left
                  /\ tasks' = [tasks EXCEPT ![t] =
                        [@ EXCEPT !.pc = "done", !.res = "Ok", !.failed = failed,
                                  !.after = DOMAIN left]]
                  /\ locks' = Released
    /\ UNCHANGED <<history, exeLast, vmVars, routeVars, retry, observe, shutdown>>

\* everything Executable::start and Executable::kill can come back with
Spawns == {SpawnOk(p) : p \in Pids} \cup {SpawnFailed}
Kills ==
    {KillNone} \cup {KillSome(st) : st \in KilledStatuses \cup {SyntheticStatus}}
    \cup {KillErr(k) : k \in {"EPERM", "NotFound", "ESRCH", "ECHILD"}}

NextTasks ==
    \/ \E t \in TaskIds, op \in {"start", "stop"}, name \in ExecutableNames :
            ExeRequest(t, op, name)
    \/ \E t \in TaskIds : ExeRequest(t, "stop_all", 0)
    \/ \E t \in TaskIds, spawn \in Spawns : StartLocked(t, spawn)
    \/ \E t \in TaskIds : StartReturns(t)
    \/ \E t \in TaskIds : StopLocked(t)
    \/ \E t \in TaskIds, kill \in Kills : StopKillReturns(t, kill)
    \/ \E t \in TaskIds : StopAllLocked(t)
    \/ \E t \in TaskIds, kill \in Kills : StopAllKillReturns(t, kill)

\* a CellService with some executables started, and no handler running
InitTasks ==
    /\ InitVm /\ InitRoute /\ InitSvc
    /\ cache \in StartedRegistries
    /\ procs = {cache[name].pid : name \in DOMAIN cache}
    /\ history = <<>>
    /\ exeLast = NoCall

SpecTasks == InitTasks /\ [][NextTasks]_vars

\* ------------------------------------------ claims on the executables lock
StoppedAll(t) == tasks[t].op = "stop_all" /\ tasks[t].pc = "done"
Acquired(t, op) == tasks[t].op = op /\ tasks[t].at > 0
\* u got the lock right after t, for the same executable
NextAfter(t, u) ==
    /\ t # u
    /\ tasks[u].at = tasks[t].at + 1
    /\ tasks[u].name = tasks[t].name

\* C33: when broadcast_stop has returned, the kill of every executable that
\* was registered has been attempted, once each, also after a kill that
\* failed, and the registry is empty
C33_BroadcastStopKillsAll ==
    \A t \in TaskIds : StoppedAll(t) =>
        /\ Range(tasks[t].order) = tasks[t].before
        /\ Len(tasks[t].order) = Cardinality(tasks[t].before)
        /\ tasks[t].failed \subseteq tasks[t].before
        /\ tasks[t].after = {}

\* a broadcast_stop whose first kill failed and that went on to a second one
C33_Witness ==
    \E t \in TaskIds :
        /\ StoppedAll(t)
        /\ Len(tasks[t].order) >= 2
        /\ tasks[t].order[1] \in tasks[t].failed
        /\ cache = EmptyMap

\* C34: while broadcast_stop awaits the kill of one entry, the kill of every
\* other entry has begun, and no entry has been removed from the registry
C34_KillsRunConcurrently ==
    \A t \in TaskIds : (tasks[t].op = "stop_all" /\ tasks[t].pc = "killing") =>
        /\ tasks[t].pending = {}
        /\ tasks[t].before \subseteq DOMAIN cache

\* C35: no handler holds the executables lock while it awaits the exit of a
\* child process, and a request for another executable that waits for the
\* lock while a kill is awaited can get it
C35_NoLockAcrossKill ==
    \A t \in TaskIds : tasks[t].pc = "killing" =>
        /\ locks.executables # Some(t)
        /\ \A u \in TaskIds :
              (/\ tasks[u].pc = "lock" /\ tasks[u].op \in {"start", "stop"}
               /\ tasks[u].name # tasks[t].current)
                  => TryLock(locks.executables)

LocalCellsRequests ==
    {CellServiceAllocateRequest(c, None) : c \in CellNames}
    \cup {CellServiceFreeRequest(c, None) : c \in CellNames}
    \cup {CellServiceListRequest(None)}
CellListRequests ==
    {CellServiceListRequest(Some(ExecutionTarget(None, Some(c)))) : c \in CellPathStrings}

NextForward ==
    \/ \E t \in TaskIds, req \in LocalCellsRequests : LocalCellsCall(t, req)
    \/ \E req \in CellListRequests, certOk \in BOOLEAN : Forward(req, certOk)
    \/ \E outcome \in DialOutcomes, timeLeft \in BOOLEAN : Dial(outcome, timeLeft)
    \/ \E status \in CallStatuses, timeLeft \in BOOLEAN : Call(status, timeLeft)
    \/ Respond

SpecForward == Init /\ [][NextForward]_vars

\* C40: once resolve_target has looked up the socket, the request being
\* forwarded does not hold the cells lock: through its dials, its backoff
\* sleeps and its forwarded call the lock is free for other requests
C40_CellsLockFreeWhileForwarding ==
    (rpc.pc \in {"dial", "call", "done"} /\ rpc.resolved.kind = "Cell") =>
        locks.cells = None

\* a local Allocate got the lock and returned Ok while a forward to a cell
\* was between two dials, and the forward is still dialing
C40_Witness ==
    /\ rpc.pc = "dial" /\ rpc.resolved.kind = "Cell"
    /\ Len(rpc.dials) >= 1
    /\ \E t \in TaskIds :
          /\ tasks[t].pc = "done" /\ tasks[t].op = "Allocate" /\ tasks[t].res = "Ok"
          /\ tasks[t].during = "dial" /\ tasks[t].dials >= 1
====
